---- MODULE Spec2Model ----
(***************************************************************************)
(* Model of the stock enrichment pipeline of Jannin2/stock-app:            *)
(*   backend/cron/enricher.go   Enricher.fetchAndEnrichStocks and          *)
(*                              CalculateRecommendationScore               *)
(*   backend/api (part_004)     the three upstream clients                 *)
(*   backend/models (part_000)  NullFloat64, NullTime, Stock               *)
(*   backend/database/db.go     cockroachDB.UpsertStocks                   *)
(*                                                                         *)
(* Money amounts are whole numbers (the comparison target > price * 1.1    *)
(* is 10 * target > 11 * price on them).  Times are integers; 0 is Go's    *)
(* zero time.Time, for which IsZero() holds.                               *)
(***************************************************************************)
EXTENDS Integers, Sequences, FiniteSets, TLC

VARIABLES
    pc,                 \* position of fetchAndEnrichStocks
    stocksFromKarenai,  \* the slice returned by the Rating Source, enriched in place
    i,                  \* the loop index of enricher.go:55 (1-based)
    karenaiErr,         \* the error returned by the Rating Source call (enricher.go:48)
    finnhubResp,        \* what Finnhub answered in the current iteration
    finnhubMetrics,     \* result of the Client A call of the current iteration
    alphaResp,          \* what Alpha Vantage answered in the current iteration
    alphaVantageData,   \* result of the Client B call of the current iteration
    ratings,            \* history: the slice as the Rating Source returned it
    errA,               \* history: per ticker, did the Client A call return an error
    errB,               \* history: per ticker, did the Client B call return an error
    calls,              \* history: the external calls of this cycle, in order
    batch,              \* history: the argument of the UpsertStocks call
    db,                 \* the stocks table, keyed by ticker
    db0,                \* history: the stocks table when the cycle started
    nextId,             \* next value of gen_random_uuid()
    now,                \* the clock (time.Now() and SQL now())
    probe,              \* the input fixed for a run and what was computed from it
    sched               \* StartFetching: its position, its ticker, the cycle before

vars == <<pc, stocksFromKarenai, i, karenaiErr, finnhubResp, finnhubMetrics,
          alphaResp, alphaVantageData, ratings, errA, errB, calls, batch, db, db0,
          nextId, now, probe, sched>>

(***************************************************************************)
(* Bounds of the model.                                                    *)
(***************************************************************************)
MaxTickers == 2     \* longest item list the Rating Source returns

(***************************************************************************)
(* backend/models: NullFloat64, NullTime, Stock.                           *)
(***************************************************************************)
NullFloat64(f, valid) == [Float64 |-> f, Valid |-> valid]
NullTime(t, valid) == [Time |-> t, Valid |-> valid]

\* sql.NullFloat64{Valid: false}: the Float64 member keeps Go's zero value
AbsentFloat == NullFloat64(0, FALSE)
AbsentTime == NullTime(0, FALSE)

NewNullFloat64(f) == NullFloat64(f, TRUE)

ZeroTime == 0
NilUUID == 0

\* JSON tokens that encoding/json decodes into a float64 (a quoted number
\* such as "\"120\"" is a JSON string and is not among them)
JSONNumber == [t \in {"0", "110", "120"} |->
                 CASE t = "0" -> 0 [] t = "110" -> 110 [] t = "120" -> 120]

\* strings.ToLower on the tokens in use
ToLower(s) == CASE s = "\"N/A\"" -> "\"n/a\""
                [] s = "\"n/A\"" -> "\"n/a\""
                [] s = "\"N/a\"" -> "\"n/a\""
                [] s = "DESC" -> "desc"
                [] s = "Desc" -> "desc"
                [] s = "ASC" -> "asc"
                [] OTHER -> s

\* strings.TrimSpace on the tokens in use
TrimSpace(s) == CASE s = " null " -> "null"
                  [] OTHER -> s

\* NullFloat64.UnmarshalJSON (part_000:27-44) on receiver nf: the receiver
\* after the call and whether an error is returned
NullFloat64_UnmarshalJSONInto_ErrorsOnNA(nf, data) ==
    LET s == TrimSpace(data)
    IN IF s = "null" \/ s = "" \/ s = "\"\""
       THEN [nf |-> [nf EXCEPT !.Valid = FALSE], err |-> FALSE]
       ELSE IF data \notin DOMAIN JSONNumber
            THEN [nf |-> [nf EXCEPT !.Valid = FALSE], err |-> TRUE]
            ELSE [nf |-> NullFloat64(JSONNumber[data], TRUE), err |-> FALSE]

NullFloat64_UnmarshalJSONInto(nf, data) ==
    LET s == TrimSpace(data)
    IN IF s = "null" \/ s = "" \/ s = "\"\"" \/ ToLower(s) = "\"n/a\""
       THEN [nf |-> [nf EXCEPT !.Valid = FALSE], err |-> FALSE]
       ELSE IF data \notin DOMAIN JSONNumber
            THEN [nf |-> [nf EXCEPT !.Valid = FALSE], err |-> TRUE]
            ELSE [nf |-> NullFloat64(JSONNumber[data], TRUE), err |-> FALSE]

\* NullFloat64.UnmarshalJSON applied to a fresh (zero) value
NullFloat64_UnmarshalJSON(data) == NullFloat64_UnmarshalJSONInto(AbsentFloat, data)

\* json.Unmarshal of one element of "items" into a zero models.Stock: the
\* payload carries the rating fields only, every other member keeps its zero
\* value
DecodeStock(item) ==
    [ID |-> NilUUID,
     Ticker |-> item.ticker,
     Company |-> item.company,
     Brokerage |-> item.brokerage,
     Action |-> item.action,
     RatingFrom |-> item.rating_from,
     RatingTo |-> item.rating_to,
     TargetFrom |-> NullFloat64_UnmarshalJSON(item.target_from).nf,
     TargetTo |-> NullFloat64_UnmarshalJSON(item.target_to).nf,
     CurrentPrice |-> 0,
     PERatio |-> NullFloat64(0, FALSE),
     DividendYield |-> NullFloat64(0, FALSE),
     MarketCapitalization |-> NullFloat64(0, FALSE),
     Alpha |-> NullFloat64(0, FALSE),
     LatestTradingDay |-> NullTime(ZeroTime, FALSE),
     RecommendationScore |-> NullFloat64(0, FALSE),
     CreatedAt |-> ZeroTime,
     UpdatedAt |-> ZeroTime]

DecodeItemFails(item) ==
    \/ NullFloat64_UnmarshalJSON(item.target_from).err
    \/ NullFloat64_UnmarshalJSON(item.target_to).err

(***************************************************************************)
(* backend/api: the Rating Source client.  A response of the environment   *)
(* is [key, transport, status, wellFormed, items, next_page].              *)
(***************************************************************************)
StatusOK == 200

GetRecommendationsFromKarenai_SkipsMalformed(resp) ==
    IF ~resp.key THEN [items |-> <<>>, err |-> "no api key"]
    ELSE IF resp.transport = "request" THEN [items |-> <<>>, err |-> "request"]
    ELSE IF resp.transport = "read" THEN [items |-> <<>>, err |-> "read"]
    ELSE IF resp.status # StatusOK THEN [items |-> <<>>, err |-> "status"]
    ELSE IF ~resp.wellFormed THEN [items |-> <<>>, err |-> "decode"]
    ELSE [items |-> [k \in DOMAIN resp.items |-> DecodeStock(resp.items[k])],
          err |-> "nil"]

\* the returned ([]models.Stock, error)
GetRecommendationsFromKarenai(resp) ==
    IF ~resp.key THEN [items |-> <<>>, err |-> "no api key"]
    ELSE IF resp.transport = "request" THEN [items |-> <<>>, err |-> "request"]
    ELSE IF resp.transport = "read" THEN [items |-> <<>>, err |-> "read"]
    ELSE IF resp.status # StatusOK THEN [items |-> <<>>, err |-> "status"]
    ELSE IF ~resp.wellFormed \/ \E k \in DOMAIN resp.items : DecodeItemFails(resp.items[k])
         THEN [items |-> <<>>, err |-> "decode"]
    ELSE [items |-> [k \in DOMAIN resp.items |-> DecodeStock(resp.items[k])],
          err |-> "nil"]

\* what one call does, in order: the request (part_004:89), reading the body
\* (part_004:98), decoding it (part_004:109)
KarenaiSteps(resp) ==
    IF ~resp.key THEN <<>>
    ELSE IF resp.transport = "request" THEN <<"request">>
    ELSE IF resp.transport = "read" \/ resp.status # StatusOK THEN <<"request", "read">>
    ELSE <<"request", "read", "decode">>

\* the HTTP requests of one call: the URL of part_004:80 once, next_page is
\* decoded (part_004:36) and read by nothing
KarenaiRequests(resp) == IF resp.key THEN <<"first page">> ELSE <<>>

(***************************************************************************)
(* backend/api: Client A (Finnhub).  A response of the environment is      *)
(* [key, metrics, quote]; each sub-response is [kind, ...] with kind one   *)
(* of "request", "read", "status", "json", "ok".  A JSON member is         *)
(* [present, val]; an absent member leaves the Go struct member at 0.      *)
(***************************************************************************)
Member(v) == [present |-> TRUE, val |-> v]
NoMember == [present |-> FALSE, val |-> 0]
DecodeFloat(m) == IF m.present THEN m.val ELSE 0

NoError == <<>>

ZeroFinnhubData ==
    [PE_Ratio |-> 0, DividendYield |-> 0, MarketCapitalization |-> 0,
     CurrentPrice |-> 0, LatestTradingDay |-> ZeroTime, Error |-> NoError]

FetchMetrics_NoFallback(d, m) ==
    IF m.kind # "ok"
    THEN [d EXCEPT !.Error = <<"metrics " \o m.kind>>]
    ELSE [d EXCEPT
            !.PE_Ratio = DecodeFloat(m.peExclExtraTTM),
            !.DividendYield = DecodeFloat(m.dividendYieldAnnually),
            !.MarketCapitalization = DecodeFloat(m.marketCapitalization)]

\* part_004:128-171, the metrics sub-fetch, applied to the zero FinnhubData
FetchMetrics(d, m) ==
    IF m.kind # "ok"
    THEN [d EXCEPT !.Error = <<"metrics " \o m.kind>>]
    ELSE [d EXCEPT
            !.PE_Ratio = IF DecodeFloat(m.peExclExtraTTM) # 0
                         THEN DecodeFloat(m.peExclExtraTTM)
                         ELSE DecodeFloat(m.peRatio),
            !.DividendYield = IF DecodeFloat(m.dividendYieldAnnually) # 0
                              THEN DecodeFloat(m.dividendYieldAnnually)
                              ELSE DecodeFloat(m.dividendYield),
            !.MarketCapitalization = DecodeFloat(m.marketCapitalization)]

\* part_004:173-208, the quote sub-fetch; its error wraps the earlier one
FetchQuote(d, q) ==
    IF q.kind # "ok"
    THEN [d EXCEPT !.Error = <<"quote " \o q.kind>> \o d.Error]
    ELSE [d EXCEPT
            !.CurrentPrice = DecodeFloat(q.c),
            !.LatestTradingDay = IF DecodeFloat(q.t) # 0
                                 THEN DecodeFloat(q.t)
                                 ELSE d.LatestTradingDay]

\* the returned (FinnhubData, error): error is the Error member
GetFinnhubMetricsAndQuote(resp) ==
    IF ~resp.key
    THEN [ZeroFinnhubData EXCEPT !.Error = <<"no api key">>]
    ELSE FetchQuote(FetchMetrics(ZeroFinnhubData, resp.metrics), resp.quote)

\* the requests GetFinnhubMetricsAndQuote sends for a response
FinnhubRequests(resp) == IF resp.key THEN <<"metrics", "quote">> ELSE <<>>

(***************************************************************************)
(* backend/api: Client B (Alpha Vantage).  A response of the environment   *)
(* is [key, kind, errorMessage, note, globalQuote, latestTradingDay];      *)
(* errorMessage and note are "absent", "string" or "other" (a JSON value   *)
(* that is no string), globalQuote is "absent", "object" or "other",       *)
(* latestTradingDay is "absent", "" or a string.                           *)
(***************************************************************************)
\* time.Parse("2006-01-02", s) on the strings in use
DateLayout == [s \in {"2024-01-02"} |-> 20240102]

ZeroAlphaVantageData == [Alpha |-> 0, LatestTradingDay |-> ZeroTime, Error |-> NoError]

GetAlphaAndLatestTradingDayFromAlphaVantage_DerivesAlpha(resp) ==
    IF ~resp.key
    THEN [ZeroAlphaVantageData EXCEPT !.Error = <<"no api key">>]
    ELSE IF resp.kind # "ok"
    THEN [ZeroAlphaVantageData EXCEPT !.Error = <<resp.kind>>]
    ELSE IF resp.errorMessage = "string"
    THEN [ZeroAlphaVantageData EXCEPT !.Error = <<"error message">>]
    ELSE IF resp.note = "string"
    THEN [ZeroAlphaVantageData EXCEPT !.Error = <<"note">>]
    ELSE IF resp.globalQuote # "object"
    THEN [ZeroAlphaVantageData EXCEPT !.Error = <<"no global quote">>]
    ELSE IF resp.latestTradingDay \in {"absent", ""}
    THEN ZeroAlphaVantageData
    ELSE IF resp.latestTradingDay \notin DOMAIN DateLayout
    THEN [ZeroAlphaVantageData EXCEPT !.Error = <<"date">>]
    ELSE [ZeroAlphaVantageData EXCEPT
            !.Alpha = 1,
            !.LatestTradingDay = DateLayout[resp.latestTradingDay]]

GetAlphaAndLatestTradingDayFromAlphaVantage_IgnoresNote(resp) ==
    IF ~resp.key
    THEN [ZeroAlphaVantageData EXCEPT !.Error = <<"no api key">>]
    ELSE IF resp.kind # "ok"
    THEN [ZeroAlphaVantageData EXCEPT !.Error = <<resp.kind>>]
    ELSE IF resp.errorMessage = "string"
    THEN [ZeroAlphaVantageData EXCEPT !.Error = <<"error message">>]
    ELSE IF resp.globalQuote # "object"
    THEN [ZeroAlphaVantageData EXCEPT !.Error = <<"no global quote">>]
    ELSE IF resp.latestTradingDay \in {"absent", ""}
    THEN ZeroAlphaVantageData
    ELSE IF resp.latestTradingDay \notin DOMAIN DateLayout
    THEN [ZeroAlphaVantageData EXCEPT !.Error = <<"date">>]
    ELSE [ZeroAlphaVantageData EXCEPT !.LatestTradingDay = DateLayout[resp.latestTradingDay]]

GetAlphaAndLatestTradingDayFromAlphaVantage(resp) ==
    IF ~resp.key
    THEN [ZeroAlphaVantageData EXCEPT !.Error = <<"no api key">>]
    ELSE IF resp.kind # "ok"
    THEN [ZeroAlphaVantageData EXCEPT !.Error = <<resp.kind>>]
    ELSE IF resp.errorMessage = "string"
    THEN [ZeroAlphaVantageData EXCEPT !.Error = <<"error message">>]
    ELSE IF resp.note = "string"
    THEN [ZeroAlphaVantageData EXCEPT !.Error = <<"note">>]
    ELSE IF resp.globalQuote # "object"
    THEN [ZeroAlphaVantageData EXCEPT !.Error = <<"no global quote">>]
    ELSE IF resp.latestTradingDay \in {"absent", ""}
    THEN ZeroAlphaVantageData
    ELSE IF resp.latestTradingDay \notin DOMAIN DateLayout
    THEN [ZeroAlphaVantageData EXCEPT !.Error = <<"date">>]
    ELSE [ZeroAlphaVantageData EXCEPT !.LatestTradingDay = DateLayout[resp.latestTradingDay]]

AlphaVantageSteps_SleepsFirst(resp) ==
    IF resp.key THEN <<"sleep", "request">> ELSE <<"sleep">>

\* the blocking delays and requests of one invocation, in order
AlphaVantageSteps(resp) == IF resp.key THEN <<"sleep", "request">> ELSE <<>>

(***************************************************************************)
(* backend/cron/enricher.go: the merge steps of one loop iteration and the *)
(* score.                                                                  *)
(***************************************************************************)
MergeFinnhub_KeepsPriceOnError(stock, data) ==
    IF data.Error # NoError
    THEN [stock EXCEPT
            !.PERatio = NullFloat64(0, FALSE),
            !.DividendYield = NullFloat64(0, FALSE),
            !.MarketCapitalization = NullFloat64(0, FALSE),
            !.CurrentPrice = data.CurrentPrice,
            !.LatestTradingDay = NullTime(ZeroTime, FALSE)]
    ELSE [stock EXCEPT
            !.PERatio = NullFloat64(data.PE_Ratio, TRUE),
            !.DividendYield = NullFloat64(data.DividendYield, TRUE),
            !.MarketCapitalization = NullFloat64(data.MarketCapitalization, TRUE),
            !.CurrentPrice = data.CurrentPrice,
            !.LatestTradingDay = IF data.LatestTradingDay # ZeroTime
                                 THEN NullTime(data.LatestTradingDay, TRUE)
                                 ELSE NullTime(ZeroTime, FALSE)]

MergeFinnhub_ZeroOnError(stock, data) ==
    IF data.Error # NoError
    THEN [stock EXCEPT
            !.PERatio = NullFloat64(0, TRUE),
            !.DividendYield = NullFloat64(0, TRUE),
            !.MarketCapitalization = NullFloat64(0, TRUE),
            !.CurrentPrice = 0,
            !.LatestTradingDay = NullTime(ZeroTime, FALSE)]
    ELSE [stock EXCEPT
            !.PERatio = NullFloat64(data.PE_Ratio, TRUE),
            !.DividendYield = NullFloat64(data.DividendYield, TRUE),
            !.MarketCapitalization = NullFloat64(data.MarketCapitalization, TRUE),
            !.CurrentPrice = data.CurrentPrice,
            !.LatestTradingDay = IF data.LatestTradingDay # ZeroTime
                                 THEN NullTime(data.LatestTradingDay, TRUE)
                                 ELSE NullTime(ZeroTime, FALSE)]

\* enricher.go:60-82: the Client A result written into the record
MergeFinnhub(stock, data) ==
    IF data.Error # NoError
    THEN [stock EXCEPT
            !.PERatio = NullFloat64(0, FALSE),
            !.DividendYield = NullFloat64(0, FALSE),
            !.MarketCapitalization = NullFloat64(0, FALSE),
            !.CurrentPrice = 0,
            !.LatestTradingDay = NullTime(ZeroTime, FALSE)]
    ELSE [stock EXCEPT
            !.PERatio = NullFloat64(data.PE_Ratio, TRUE),
            !.DividendYield = NullFloat64(data.DividendYield, TRUE),
            !.MarketCapitalization = NullFloat64(data.MarketCapitalization, TRUE),
            !.CurrentPrice = data.CurrentPrice,
            !.LatestTradingDay = IF data.LatestTradingDay # ZeroTime
                                 THEN NullTime(data.LatestTradingDay, TRUE)
                                 ELSE NullTime(ZeroTime, FALSE)]

MergeAlpha_TakesTradingDay(stock, data) ==
    IF data.Error # NoError
    THEN [stock EXCEPT !.Alpha = NullFloat64(0, FALSE)]
    ELSE [stock EXCEPT
            !.Alpha = NullFloat64(data.Alpha, TRUE),
            !.LatestTradingDay = IF ~@.Valid /\ data.LatestTradingDay # ZeroTime
                                 THEN NullTime(data.LatestTradingDay, TRUE) ELSE @]

\* enricher.go:84-92: the Client B result written into the record
MergeAlpha(stock, data) ==
    IF data.Error # NoError
    THEN [stock EXCEPT !.Alpha = NullFloat64(0, FALSE)]
    ELSE [stock EXCEPT !.Alpha = NullFloat64(data.Alpha, TRUE)]

CalculateRecommendationScore_AtThreshold(stock) ==
    (IF stock.Action = "Buy" \/ stock.Action = "Strong Buy" THEN 5 ELSE 0)
    + (IF /\ stock.CurrentPrice > 0
          /\ stock.TargetTo.Valid
          /\ 10 * stock.TargetTo.Float64 >= 11 * stock.CurrentPrice
       THEN 3 ELSE 0)

\* enricher.go:127-145
CalculateRecommendationScore(stock) ==
    (IF stock.Action = "Buy" \/ stock.Action = "Strong Buy" THEN 5 ELSE 0)
    + (IF /\ stock.CurrentPrice > 0
          /\ stock.TargetTo.Valid
          /\ 10 * stock.TargetTo.Float64 > 11 * stock.CurrentPrice
       THEN 3 ELSE 0)

\* enricher.go:94-100: the score and the in-memory UpdatedAt
WriteScore_OmitsZero(stock, t) ==
    [stock EXCEPT
       !.RecommendationScore = NullFloat64(CalculateRecommendationScore(stock),
                                           CalculateRecommendationScore(stock) # 0),
       !.UpdatedAt = t]

WriteScore(stock, t) ==
    [stock EXCEPT
       !.RecommendationScore = NullFloat64(CalculateRecommendationScore(stock), TRUE),
       !.UpdatedAt = t]

\* the writes through stocksFromKarenai[i] of enricher.go:63-77 and 88-90
EnrichFinnhub(stocks, idx, data) == [stocks EXCEPT ![idx] = MergeFinnhub(@, data)]

EnrichAlpha_BlanksAll(stocks, idx, data) ==
    IF data.Error # NoError
    THEN [k \in DOMAIN stocks |-> [stocks[k] EXCEPT !.Alpha = NullFloat64(0, FALSE)]]
    ELSE [stocks EXCEPT ![idx] = MergeAlpha(@, data)]

EnrichAlpha(stocks, idx, data) == [stocks EXCEPT ![idx] = MergeAlpha(@, data)]

(***************************************************************************)
(* backend/database/db.go: cockroachDB.UpsertStocks.  The table is a       *)
(* function from the stored tickers (ticker is UNIQUE) to rows.            *)
(***************************************************************************)
EmptyTable == [t \in {} |-> 0]

UpsertRow_DoNothingOnConflict(table, s, id, t) ==
    IF s.Ticker \in DOMAIN table THEN table
    ELSE [k \in DOMAIN table \cup {s.Ticker} |->
            IF k = s.Ticker
            THEN [id |-> id, ticker |-> s.Ticker, company |-> s.Company,
                  brokerage |-> s.Brokerage, action |-> s.Action,
                  rating_from |-> s.RatingFrom, rating_to |-> s.RatingTo,
                  target_from |-> s.TargetFrom, target_to |-> s.TargetTo,
                  current_price |-> s.CurrentPrice, pe_ratio |-> s.PERatio,
                  dividend_yield |-> s.DividendYield,
                  market_capitalization |-> s.MarketCapitalization,
                  alpha |-> s.Alpha, latest_trading_day |-> s.LatestTradingDay,
                  recommendation_score |-> s.RecommendationScore,
                  created_at |-> t, updated_at |-> t]
            ELSE table[k]]

UpsertRow_WritesRecordStamps(table, s, id, t) ==
    [k \in DOMAIN table \cup {s.Ticker} |->
        IF k = s.Ticker
        THEN [id |-> IF s.Ticker \in DOMAIN table THEN table[s.Ticker].id ELSE id,
              ticker |-> s.Ticker, company |-> s.Company,
              brokerage |-> s.Brokerage, action |-> s.Action,
              rating_from |-> s.RatingFrom, rating_to |-> s.RatingTo,
              target_from |-> s.TargetFrom, target_to |-> s.TargetTo,
              current_price |-> s.CurrentPrice, pe_ratio |-> s.PERatio,
              dividend_yield |-> s.DividendYield,
              market_capitalization |-> s.MarketCapitalization,
              alpha |-> s.Alpha, latest_trading_day |-> s.LatestTradingDay,
              recommendation_score |-> s.RecommendationScore,
              created_at |-> IF s.Ticker \in DOMAIN table
                             THEN table[s.Ticker].created_at ELSE t,
              updated_at |-> s.UpdatedAt]
        ELSE table[k]]

UpsertRow_ResetsCreatedAt(table, s, id, t) ==
    [k \in DOMAIN table \cup {s.Ticker} |->
        IF k = s.Ticker
        THEN [id |-> IF s.Ticker \in DOMAIN table THEN table[s.Ticker].id ELSE id,
              ticker |-> s.Ticker, company |-> s.Company,
              brokerage |-> s.Brokerage, action |-> s.Action,
              rating_from |-> s.RatingFrom, rating_to |-> s.RatingTo,
              target_from |-> s.TargetFrom, target_to |-> s.TargetTo,
              current_price |-> s.CurrentPrice, pe_ratio |-> s.PERatio,
              dividend_yield |-> s.DividendYield,
              market_capitalization |-> s.MarketCapitalization,
              alpha |-> s.Alpha, latest_trading_day |-> s.LatestTradingDay,
              recommendation_score |-> s.RecommendationScore,
              created_at |-> t, updated_at |-> t]
        ELSE table[k]]

\* the INSERT ... ON CONFLICT (ticker) DO UPDATE of db.go:318-342 for one
\* record: id and created_at are written by the INSERT branch only
UpsertRow(table, s, id, t) ==
    LET old == IF s.Ticker \in DOMAIN table THEN table[s.Ticker]
               ELSE [id |-> id, created_at |-> t]
        row == [id |-> old.id,
                ticker |-> s.Ticker,
                company |-> s.Company,
                brokerage |-> s.Brokerage,
                action |-> s.Action,
                rating_from |-> s.RatingFrom,
                rating_to |-> s.RatingTo,
                target_from |-> s.TargetFrom,
                target_to |-> s.TargetTo,
                current_price |-> s.CurrentPrice,
                pe_ratio |-> s.PERatio,
                dividend_yield |-> s.DividendYield,
                market_capitalization |-> s.MarketCapitalization,
                alpha |-> s.Alpha,
                latest_trading_day |-> s.LatestTradingDay,
                recommendation_score |-> s.RecommendationScore,
                created_at |-> old.created_at,
                updated_at |-> t]
    IN [k \in DOMAIN table \cup {s.Ticker} |-> IF k = s.Ticker THEN row ELSE table[k]]

\* db.go:348-375: the rows executed inside the transaction, first to last;
\* failAt is the index of the row whose ExecContext fails (0: none fails)
RECURSIVE ExecRows(_, _, _, _, _, _)
ExecRows(table, id, stocks, k, failAt, t) ==
    IF k > Len(stocks) THEN [table |-> table, nextId |-> id, err |-> FALSE]
    ELSE IF k = failAt THEN [table |-> table, nextId |-> id, err |-> TRUE]
    ELSE ExecRows(UpsertRow(table, stocks[k], id, t),
                  IF stocks[k].Ticker \in DOMAIN table THEN id ELSE id + 1,
                  stocks, k + 1, failAt, t)

UpsertStocks_ReplacesTable(table, id, stocks, outcome, t) ==
    IF Len(stocks) = 0 THEN [table |-> table, nextId |-> id, err |-> "nil"]
    ELSE IF outcome.kind \in {"begin", "prepare"}
    THEN [table |-> table, nextId |-> id, err |-> outcome.kind]
    ELSE LET tx == ExecRows(EmptyTable, id, stocks, 1,
                            IF outcome.kind = "exec" THEN outcome.failAt ELSE 0, t)
         IN IF tx.err THEN [table |-> table, nextId |-> id, err |-> "exec"]
            ELSE IF outcome.kind = "commit"
            THEN [table |-> table, nextId |-> id, err |-> "commit"]
            ELSE [table |-> tx.table, nextId |-> tx.nextId, err |-> "nil"]

UpsertStocks_KeepsExecutedRows(table, id, stocks, outcome, t) ==
    IF Len(stocks) = 0 THEN [table |-> table, nextId |-> id, err |-> "nil"]
    ELSE IF outcome.kind \in {"begin", "prepare"}
    THEN [table |-> table, nextId |-> id, err |-> outcome.kind]
    ELSE LET tx == ExecRows(table, id, stocks, 1,
                            IF outcome.kind = "exec" THEN outcome.failAt ELSE 0, t)
         IN IF tx.err THEN [table |-> tx.table, nextId |-> tx.nextId, err |-> "exec"]
            ELSE IF outcome.kind = "commit"
            THEN [table |-> table, nextId |-> id, err |-> "commit"]
            ELSE [table |-> tx.table, nextId |-> tx.nextId, err |-> "nil"]

\* db.go:307-382.  outcome is [kind, failAt], kind one of "ok", "begin",
\* "prepare", "exec", "commit"; every error path leaves through the deferred
\* tx.Rollback(), which discards the rows executed so far
UpsertStocks(table, id, stocks, outcome, t) ==
    IF Len(stocks) = 0 THEN [table |-> table, nextId |-> id, err |-> "nil"]
    ELSE IF outcome.kind \in {"begin", "prepare"}
    THEN [table |-> table, nextId |-> id, err |-> outcome.kind]
    ELSE LET tx == ExecRows(table, id, stocks, 1,
                            IF outcome.kind = "exec" THEN outcome.failAt ELSE 0, t)
         IN IF tx.err THEN [table |-> table, nextId |-> id, err |-> "exec"]
            ELSE IF outcome.kind = "commit"
            THEN [table |-> table, nextId |-> id, err |-> "commit"]
            ELSE [table |-> tx.table, nextId |-> tx.nextId, err |-> "nil"]

(***************************************************************************)
(* The environment: what the three upstream services and the database      *)
(* answer.                                                                 *)
(***************************************************************************)
RawItem(ticker, action, target_to) ==
    [ticker |-> ticker, company |-> ticker \o " Inc", brokerage |-> "Broker",
     action |-> action, rating_from |-> "Neutral", rating_to |-> action,
     target_from |-> "null", target_to |-> target_to]

\* items of the Rating Source payload; the last one carries a malformed target
RawItems ==
    {RawItem("AAA", "Buy", "120"),
     RawItem("BBB", "Hold", "120"),
     RawItem("AAA", "Hold", "null"),
     RawItem("BBB", "Buy", "\"abc\"")}

RECURSIVE SeqsUpTo(_, _)
SeqsUpTo(S, n) ==
    IF n = 0 THEN {<<>>}
    ELSE LET shorter == SeqsUpTo(S, n - 1)
         IN shorter \cup {Append(q, x) : q \in {r \in shorter : Len(r) = n - 1}, x \in S}

KarenaiResponse(key, transport, status, wellFormed, items) ==
    [key |-> key, transport |-> transport, status |-> status,
     wellFormed |-> wellFormed, items |-> items, next_page |-> "page2"]

KarenaiResponses ==
    {KarenaiResponse(FALSE, "ok", StatusOK, TRUE, <<>>),
     KarenaiResponse(TRUE, "request", StatusOK, TRUE, <<>>),
     KarenaiResponse(TRUE, "read", StatusOK, TRUE, <<>>),
     KarenaiResponse(TRUE, "ok", 500, TRUE, <<>>),
     KarenaiResponse(TRUE, "ok", StatusOK, FALSE, <<>>)}
    \cup {KarenaiResponse(TRUE, "ok", StatusOK, TRUE, items) :
            items \in SeqsUpTo(RawItems, MaxTickers)}

MetricsFailure(kind) ==
    [kind |-> kind, peExclExtraTTM |-> NoMember, peRatio |-> NoMember,
     dividendYieldAnnually |-> NoMember, dividendYield |-> NoMember,
     marketCapitalization |-> NoMember]

MetricsPayload(pe, peAlt, dy, dyAlt, cap) ==
    [kind |-> "ok", peExclExtraTTM |-> pe, peRatio |-> peAlt,
     dividendYieldAnnually |-> dy, dividendYield |-> dyAlt,
     marketCapitalization |-> cap]

QuoteFailure(kind) == [kind |-> kind, c |-> NoMember, t |-> NoMember]
QuotePayload(c, t) == [kind |-> "ok", c |-> c, t |-> t]

MetricsResponses ==
    {MetricsFailure("status"),
     MetricsPayload(Member(15), Member(12), Member(2), Member(3), Member(500)),
     MetricsPayload(NoMember, Member(12), Member(0), NoMember, NoMember)}

QuoteResponses ==
    {QuoteFailure("request"),
     QuotePayload(Member(100), Member(1700000000)),
     QuotePayload(Member(100), Member(0))}

FinnhubResponses ==
    {[key |-> FALSE, metrics |-> MetricsFailure("request"), quote |-> QuoteFailure("request")]}
    \cup {[key |-> TRUE, metrics |-> m, quote |-> q] :
            m \in MetricsResponses, q \in QuoteResponses}

AlphaResponse(key, kind, errorMessage, note, globalQuote, day) ==
    [key |-> key, kind |-> kind, errorMessage |-> errorMessage, note |-> note,
     globalQuote |-> globalQuote, latestTradingDay |-> day]

AlphaVantageResponses ==
    {AlphaResponse(FALSE, "ok", "absent", "absent", "absent", "absent"),
     AlphaResponse(TRUE, "request", "absent", "absent", "absent", "absent"),
     AlphaResponse(TRUE, "status", "absent", "absent", "absent", "absent"),
     AlphaResponse(TRUE, "json", "absent", "absent", "absent", "absent"),
     AlphaResponse(TRUE, "ok", "string", "absent", "absent", "absent"),
     AlphaResponse(TRUE, "ok", "absent", "string", "object", "2024-01-02"),
     AlphaResponse(TRUE, "ok", "absent", "absent", "absent", "absent"),
     AlphaResponse(TRUE, "ok", "absent", "absent", "object", "2024-01-02"),
     AlphaResponse(TRUE, "ok", "absent", "absent", "object", "absent"),
     AlphaResponse(TRUE, "ok", "absent", "absent", "object", "02/01/2024")}

UpsertOutcomes ==
    {[kind |-> k, failAt |-> 0] : k \in {"ok", "begin", "prepare", "commit"}}
    \cup {[kind |-> "exec", failAt |-> k] : k \in 1..MaxTickers}

\* a record as an earlier cycle enriched it, and tables such cycles left
StoredStock(item, finnhub, alpha, t) ==
    WriteScore(MergeAlpha(MergeFinnhub(DecodeStock(item),
                                       GetFinnhubMetricsAndQuote(finnhub)),
                          GetAlphaAndLatestTradingDayFromAlphaVantage(alpha)), t)

InitialTables ==
    {EmptyTable,
     UpsertStocks(EmptyTable, 1,
        <<StoredStock(RawItem("AAA", "Sell", "110"),
                      [key |-> TRUE,
                       metrics |-> MetricsPayload(Member(9), Member(9), Member(1),
                                                  Member(1), Member(400)),
                       quote |-> QuotePayload(Member(90), Member(1600000000))],
                      AlphaResponse(TRUE, "ok", "absent", "absent", "object", "2024-01-02"),
                      1)>>,
        [kind |-> "ok", failAt |-> 0], 1).table}

(***************************************************************************)
(* Enricher.fetchAndEnrichStocks, one action per external call.            *)
(***************************************************************************)
NoFinnhubResponse ==
    [key |-> FALSE, metrics |-> MetricsFailure("not called"),
     quote |-> QuoteFailure("not called")]
NoAlphaResponse == AlphaResponse(FALSE, "not called", "absent", "absent", "absent", "absent")
NoFinnhubData == [ZeroFinnhubData EXCEPT !.Error = <<"not called">>]
NoAlphaVantageData == [ZeroAlphaVantageData EXCEPT !.Error = <<"not called">>]

Call(op, idx, ticker) == [op |-> op, idx |-> idx, ticker |-> ticker]

Successor_IgnoresRatingError(p, idx, n, failed) ==
    CASE p = "ratings" -> IF n = 0 THEN "upsert" ELSE "finnhub"
      [] p = "finnhub" -> "alpha"
      [] p = "alpha" -> "score"
      [] p = "score" -> IF idx < n THEN "finnhub" ELSE "upsert"
      [] p = "upsert" -> IF failed THEN "upsert failed" ELSE "saved"

Successor_AbortsOnClientError(p, idx, n, failed) ==
    CASE p = "ratings" -> IF failed THEN "returned"
                          ELSE IF n = 0 THEN "upsert" ELSE "finnhub"
      [] p = "finnhub" -> IF failed THEN "returned" ELSE "alpha"
      [] p = "alpha" -> IF failed THEN "returned" ELSE "score"
      [] p = "score" -> IF idx < n THEN "finnhub" ELSE "upsert"
      [] p = "upsert" -> IF failed THEN "upsert failed" ELSE "saved"

Successor_ScoreBeforeAlpha(p, idx, n, failed) ==
    CASE p = "ratings" -> IF failed THEN "returned"
                          ELSE IF n = 0 THEN "upsert" ELSE "finnhub"
      [] p = "finnhub" -> "score"
      [] p = "score" -> "alpha"
      [] p = "alpha" -> IF idx <= n THEN "finnhub" ELSE "upsert"
      [] p = "upsert" -> IF failed THEN "upsert failed" ELSE "saved"

Successor_PersistsPerTicker(p, idx, n, failed) ==
    CASE p = "ratings" -> IF failed THEN "returned"
                          ELSE IF n = 0 THEN "upsert" ELSE "finnhub"
      [] p = "finnhub" -> "alpha"
      [] p = "alpha" -> "score"
      [] p = "score" -> "upsert"
      [] p = "upsert" -> IF failed THEN "upsert failed"
                         ELSE IF idx <= n THEN "finnhub" ELSE "saved"

Successor_RetriesFailedCalls(p, idx, n, failed) ==
    CASE p = "ratings" -> IF failed THEN "returned"
                          ELSE IF n = 0 THEN "upsert" ELSE "finnhub"
      [] p = "finnhub" -> IF failed THEN "finnhub" ELSE "alpha"
      [] p = "alpha" -> "score"
      [] p = "score" -> IF idx < n THEN "finnhub" ELSE "upsert"
      [] p = "upsert" -> IF failed THEN "upsert" ELSE "saved"

\* the control flow of enricher.go:45-124: where the function goes after the
\* step at p, for loop index idx of n records; failed tells whether the call
\* of that step returned an error
Successor(p, idx, n, failed) ==
    CASE p = "ratings" -> IF failed THEN "returned"
                          ELSE IF n = 0 THEN "upsert" ELSE "finnhub"
      [] p = "finnhub" -> "alpha"
      [] p = "alpha" -> "score"
      [] p = "score" -> IF idx < n THEN "finnhub" ELSE "upsert"
      [] p = "upsert" -> IF failed THEN "upsert failed" ELSE "saved"

\* StartFetching inside its first call of fetchAndEnrichStocks
\* (enricher.go:31): the ticker of enricher.go:33 does not exist yet
FirstCycle ==
    [loc |-> "cycle", created |-> FALSE, buffered |-> 0, missed |-> FALSE,
     prev |-> "none", running |-> 1]

Init ==
    /\ sched = FirstCycle
    /\ pc = "ratings"
    /\ stocksFromKarenai = <<>>
    /\ i = 0
    /\ karenaiErr = "pending"
    /\ finnhubResp = NoFinnhubResponse
    /\ finnhubMetrics = NoFinnhubData
    /\ alphaResp = NoAlphaResponse
    /\ alphaVantageData = NoAlphaVantageData
    /\ ratings = <<>>
    /\ errA = <<>>
    /\ errB = <<>>
    /\ calls = <<>>
    /\ batch = <<>>
    /\ db \in InitialTables
    /\ db0 = db
    /\ nextId = Cardinality(DOMAIN db) + 1
    /\ now = 2
    /\ probe = [op |-> "none"]

\* enricher.go:48-53
RatingsCall(responses) ==
    /\ pc = "ratings"
    /\ \E resp \in responses :
         LET r == GetRecommendationsFromKarenai(resp)
         IN /\ karenaiErr' = r.err
            /\ stocksFromKarenai' = r.items
            /\ ratings' = r.items
            /\ i' = 1
            /\ pc' = Successor(pc, 0, Len(r.items), r.err # "nil")
    /\ calls' = Append(calls, Call("karenai", 0, ""))
    /\ UNCHANGED <<finnhubResp, finnhubMetrics, alphaResp, alphaVantageData, errA,
                   errB, batch, db, db0, nextId, now, sched>>

FetchRatingsFrom(responses) == RatingsCall(responses) /\ UNCHANGED probe

FetchRatings == FetchRatingsFrom(KarenaiResponses)

\* enricher.go:55-82
FinnhubCall(responses) ==
    /\ pc = "finnhub"
    /\ \E resp \in responses :
         LET data == GetFinnhubMetricsAndQuote(resp)
         IN /\ finnhubResp' = resp
            /\ finnhubMetrics' = data
            /\ stocksFromKarenai' = EnrichFinnhub(stocksFromKarenai, i, data)
            /\ errA' = Append(errA, data.Error # NoError)
            /\ pc' = Successor(pc, i, Len(stocksFromKarenai), data.Error # NoError)
    /\ calls' = Append(calls, Call("finnhub", i, stocksFromKarenai[i].Ticker))
    /\ UNCHANGED <<i, karenaiErr, alphaResp, alphaVantageData, ratings, errB, batch,
                   db, db0, nextId, now, sched>>

CallFinnhubFrom(responses) == FinnhubCall(responses) /\ UNCHANGED probe

CallFinnhub == CallFinnhubFrom(FinnhubResponses)

\* enricher.go:84-92
AlphaVantageCall(responses) ==
    /\ pc = "alpha"
    /\ \E resp \in responses :
         LET data == GetAlphaAndLatestTradingDayFromAlphaVantage(resp)
         IN /\ alphaResp' = resp
            /\ alphaVantageData' = data
            /\ stocksFromKarenai' = EnrichAlpha(stocksFromKarenai, i, data)
            /\ errB' = Append(errB, data.Error # NoError)
            /\ pc' = Successor(pc, i, Len(stocksFromKarenai), data.Error # NoError)
    /\ calls' = Append(calls, Call("alphavantage", i, stocksFromKarenai[i].Ticker))
    /\ UNCHANGED <<i, karenaiErr, finnhubResp, finnhubMetrics, ratings, errA, batch,
                   db, db0, nextId, now, sched>>

CallAlphaVantageFrom(responses) == AlphaVantageCall(responses) /\ UNCHANGED probe

CallAlphaVantage == CallAlphaVantageFrom(AlphaVantageResponses)

\* enricher.go:94-115: the score, then the next iteration; the client
\* results are locals of the loop body
Score ==
    /\ pc = "score"
    /\ stocksFromKarenai' = [stocksFromKarenai EXCEPT ![i] = WriteScore(@, now)]
    /\ calls' = Append(calls, Call("score", i, stocksFromKarenai[i].Ticker))
    /\ finnhubResp' = NoFinnhubResponse
    /\ finnhubMetrics' = NoFinnhubData
    /\ alphaResp' = NoAlphaResponse
    /\ alphaVantageData' = NoAlphaVantageData
    /\ i' = i + 1
    /\ pc' = Successor(pc, i, Len(stocksFromKarenai), FALSE)
    /\ UNCHANGED <<karenaiErr, ratings, errA, errB, batch, db, db0, nextId, now, probe, sched>>

\* enricher.go:117-124
PersistWith(outcomes) ==
    /\ pc = "upsert"
    /\ \E outcome \in outcomes :
         LET r == UpsertStocks(db, nextId, stocksFromKarenai, outcome, now)
         IN /\ db' = r.table
            /\ nextId' = r.nextId
            /\ pc' = Successor(pc, i, Len(stocksFromKarenai), r.err # "nil")
    /\ batch' = stocksFromKarenai
    /\ calls' = Append(calls, Call("upsert", 0, ""))
    /\ UNCHANGED <<stocksFromKarenai, i, karenaiErr, finnhubResp, finnhubMetrics,
                   alphaResp, alphaVantageData, ratings, errA, errB, db0, now, probe, sched>>

Persist == PersistWith(UpsertOutcomes)

Next == FetchRatings \/ CallFinnhub \/ CallAlphaVantage \/ Score \/ Persist

Spec == Init /\ [][Next]_vars

(***************************************************************************)
(* Properties of one enrichment cycle.                                     *)
(***************************************************************************)
Returned == pc \in {"returned", "upsert failed", "saved"}
Submitted == pc \in {"upsert failed", "saved"}

CallsOf(op) == {p \in DOMAIN calls : calls[p].op = op}

\* k is the last record of the batch for its ticker: the row the table keeps
LastOfTicker(k) == \A m \in DOMAIN batch : m > k => batch[m].Ticker # batch[k].Ticker

\* C1: a cycle whose Rating Source fetch returned an error makes no call to
\* Client A, Client B or UpsertStocks and leaves the table as it found it.
C1_RatingFailureAbortsCycle ==
    karenaiErr \notin {"pending", "nil"} =>
        /\ calls = <<Call("karenai", 0, "")>>
        /\ batch = <<>>
        /\ db = db0
        /\ pc = "returned"

C1_Witness ==
    /\ karenaiErr = "decode"
    /\ pc = "returned"
    /\ db # EmptyTable

\* C2: when the Rating Source returned N records, the function returns only
\* after UpsertStocks, whatever Client A and Client B answered; every record
\* went through Client A, Client B and the score, and the batch handed to
\* UpsertStocks is those N records, same tickers, same order.
C2_AllRecordsReachTheBatch ==
    karenaiErr = "nil" =>
        /\ pc # "returned"
        /\ Len(stocksFromKarenai) = Len(ratings)
        /\ Submitted =>
             /\ batch = stocksFromKarenai
             /\ Len(batch) = Len(ratings)
             /\ Len(errA) = Len(ratings)
             /\ Len(errB) = Len(ratings)
             /\ \A k \in DOMAIN ratings :
                  /\ batch[k].Ticker = ratings[k].Ticker
                  /\ batch[k].Action = ratings[k].Action
                  /\ batch[k].TargetTo = ratings[k].TargetTo
                  /\ batch[k].RecommendationScore.Valid
                  /\ \A op \in {"finnhub", "alphavantage", "score"} :
                       \E p \in DOMAIN calls : calls[p] = Call(op, k, ratings[k].Ticker)

C2_Witness ==
    /\ pc = "saved"
    /\ Len(batch) = 2
    /\ errA = <<TRUE, FALSE>>
    /\ errB = <<FALSE, TRUE>>
    /\ batch[1].Ticker = "AAA"
    /\ batch[2].Ticker = "BBB"

EnrichedFields(stock) ==
    [currentPrice |-> stock.CurrentPrice,
     peRatio |-> stock.PERatio,
     dividendYield |-> stock.DividendYield,
     marketCapitalization |-> stock.MarketCapitalization,
     alpha |-> stock.Alpha,
     latestTradingDay |-> stock.LatestTradingDay,
     recommendationScore |-> stock.RecommendationScore]

\* what a record's enriched fields are when nothing but its own base record
\* (action, target) and its own two client results is looked at
OwnEnrichment(base, a, b) ==
    LET ok == a.Error = NoError
        price == IF ok THEN a.CurrentPrice ELSE 0
        points == (IF base.Action \in {"Buy", "Strong Buy"} THEN 5 ELSE 0)
                  + (IF price > 0 /\ base.TargetTo.Valid
                        /\ 10 * base.TargetTo.Float64 > 11 * price THEN 3 ELSE 0)
    IN [currentPrice |-> price,
        peRatio |-> IF ok THEN NullFloat64(a.PE_Ratio, TRUE) ELSE AbsentFloat,
        dividendYield |-> IF ok THEN NullFloat64(a.DividendYield, TRUE) ELSE AbsentFloat,
        marketCapitalization |->
            IF ok THEN NullFloat64(a.MarketCapitalization, TRUE) ELSE AbsentFloat,
        alpha |-> IF b.Error = NoError THEN NullFloat64(b.Alpha, TRUE) ELSE AbsentFloat,
        latestTradingDay |-> IF ok /\ a.LatestTradingDay # ZeroTime
                             THEN NullTime(a.LatestTradingDay, TRUE) ELSE AbsentTime,
        recommendationScore |-> NullFloat64(points, TRUE)]

IsolatedStep ==
    pc \in {"finnhub", "alpha", "score"} =>
        /\ Len(stocksFromKarenai') = Len(stocksFromKarenai)
        /\ \A k \in DOMAIN stocksFromKarenai :
             k # i => stocksFromKarenai'[k] = stocksFromKarenai[k]
        /\ pc = "score" =>
             EnrichedFields(stocksFromKarenai'[i])
               = OwnEnrichment(ratings[i], finnhubMetrics, alphaVantageData)

\* C3: per-ticker isolation.  A step of the loop for ticker i leaves every
\* other record of the slice as it was, and when ticker i has been scored its
\* enriched fields are those its own base record and its own Client A and
\* Client B results give, whatever happened to the tickers before it.
C3_PerTickerIsolation == [][IsolatedStep]_vars

C3_Witness ==
    /\ pc = "saved"
    /\ Len(batch) = 2
    /\ batch[1].Ticker = "AAA"
    /\ batch[2].Ticker = "BBB"
    /\ errB = <<TRUE, FALSE>>
    /\ ~batch[1].Alpha.Valid
    /\ batch[2].Alpha.Valid
    /\ DOMAIN db = {"AAA", "BBB"}

\* C4: a record whose Client A fetch returned an error has peRatio,
\* dividendYield, marketCapitalization and latestTradingDay absent and
\* currentPrice 0, in the slice, in the batch handed to UpsertStocks and in
\* the row stored for it; no fetched field other than currentPrice is a
\* present zero after its source failed (alpha is absent when Client B
\* failed).  recommendationScore is computed, not fetched.
C4_FinnhubFailureBlanksFields ==
    /\ \A k \in DOMAIN errA : errA[k] =>
         /\ ~stocksFromKarenai[k].PERatio.Valid
         /\ ~stocksFromKarenai[k].DividendYield.Valid
         /\ ~stocksFromKarenai[k].MarketCapitalization.Valid
         /\ ~stocksFromKarenai[k].LatestTradingDay.Valid
         /\ stocksFromKarenai[k].CurrentPrice = 0
    /\ \A k \in DOMAIN errB : errB[k] => ~stocksFromKarenai[k].Alpha.Valid
    /\ Submitted => batch = stocksFromKarenai
    /\ pc = "saved" =>
         \A k \in DOMAIN batch : errA[k] /\ LastOfTicker(k) =>
             /\ db[batch[k].Ticker].pe_ratio = AbsentFloat
             /\ db[batch[k].Ticker].dividend_yield = AbsentFloat
             /\ db[batch[k].Ticker].market_capitalization = AbsentFloat
             /\ db[batch[k].Ticker].latest_trading_day = AbsentTime
             /\ db[batch[k].Ticker].current_price = 0

C4_Witness ==
    /\ pc = "saved"
    /\ Len(batch) = 2
    /\ errA = <<TRUE, FALSE>>
    /\ finnhubResp = NoFinnhubResponse
    /\ batch[1].Ticker = "AAA"
    /\ db["AAA"].current_price = 0
    /\ ~db["AAA"].pe_ratio.Valid
    /\ batch[2].PERatio.Valid

\* the payload-level failures of Client B: the request went through and the
\* body decoded, but it carries "Error Message", "Note" or no "Global Quote"
AlphaPayloadFailure(resp) ==
    /\ resp.key
    /\ resp.kind = "ok"
    /\ \/ resp.errorMessage = "string"
       \/ resp.note = "string"
       \/ resp.globalQuote = "absent"

\* C5: a record's alpha is absent exactly when its Client B fetch returned an
\* error, which each payload-level failure shape does, and is otherwise
\* present with the value Client B returned.
C5_AlphaFollowsClientB ==
    /\ \A k \in DOMAIN errB : errB[k] <=> ~stocksFromKarenai[k].Alpha.Valid
    /\ pc = "score" =>
         /\ AlphaPayloadFailure(alphaResp) => errB[i]
         /\ errB[i] <=> alphaVantageData.Error # NoError
         /\ errB[i] => stocksFromKarenai[i].Alpha = AbsentFloat
         /\ ~errB[i] => stocksFromKarenai[i].Alpha = NullFloat64(alphaVantageData.Alpha, TRUE)
    /\ pc = "saved" =>
         \A k \in DOMAIN batch : LastOfTicker(k) =>
             (errB[k] <=> ~db[batch[k].Ticker].alpha.Valid)

C5_Witness ==
    /\ pc = "score"
    /\ i = 2
    /\ alphaResp.note = "string"
    /\ alphaResp.globalQuote = "object"
    /\ errB = <<FALSE, TRUE>>
    /\ stocksFromKarenai[1].Alpha.Valid
    /\ ~stocksFromKarenai[2].Alpha.Valid

FinnhubMetricsOnly(resp) == resp.key /\ resp.metrics.kind = "ok" /\ resp.quote.kind # "ok"
FinnhubQuoteOnly(resp) == resp.key /\ resp.metrics.kind # "ok" /\ resp.quote.kind = "ok"

\* C6: the two sub-fetches of Client A fail independently: both requests are
\* sent whenever the credential is there, and when exactly one of them failed
\* the values the other one obtained are present in the ticker's record.
C6_PartialFinnhubDataKept ==
    pc = "alpha" =>
        /\ finnhubResp.key => FinnhubRequests(finnhubResp) = <<"metrics", "quote">>
        /\ FinnhubMetricsOnly(finnhubResp) =>
             /\ stocksFromKarenai[i].PERatio = NullFloat64(finnhubMetrics.PE_Ratio, TRUE)
             /\ stocksFromKarenai[i].DividendYield
                  = NullFloat64(finnhubMetrics.DividendYield, TRUE)
             /\ stocksFromKarenai[i].MarketCapitalization
                  = NullFloat64(finnhubMetrics.MarketCapitalization, TRUE)
        /\ FinnhubQuoteOnly(finnhubResp) =>
             stocksFromKarenai[i].CurrentPrice = finnhubMetrics.CurrentPrice

\* C8: every record of every batch handed to UpsertStocks, and every row
\* stored from it, has a present recommendationScore in {0, 3, 5, 8}, whatever
\* the two clients answered for it.
C8_ScoreAlwaysPresent ==
    /\ Submitted =>
         \A k \in DOMAIN batch :
             /\ batch[k].RecommendationScore.Valid
             /\ batch[k].RecommendationScore.Float64 \in {0, 3, 5, 8}
    /\ pc = "saved" =>
         \A k \in DOMAIN batch :
             /\ db[batch[k].Ticker].recommendation_score.Valid
             /\ db[batch[k].Ticker].recommendation_score.Float64 \in {0, 3, 5, 8}

C8_Witness ==
    /\ pc = "saved"
    /\ Len(batch) = 2
    /\ errA = <<TRUE, FALSE>>
    /\ errB = <<TRUE, FALSE>>
    /\ batch[1].RecommendationScore = NullFloat64(0, TRUE)
    /\ batch[2].RecommendationScore = NullFloat64(8, TRUE)
    /\ db[batch[1].Ticker].recommendation_score = NullFloat64(0, TRUE)

\* the call at position p of a cycle that processes the records in the order
\* of the Rating Source: Client A, Client B, score, ticker after ticker
LoopCall(p) ==
    LET k == ((p - 2) \div 3) + 1
        op == CASE (p - 2) % 3 = 0 -> "finnhub"
                [] (p - 2) % 3 = 1 -> "alphavantage"
                [] (p - 2) % 3 = 2 -> "score"
    IN Call(op, k, ratings[k].Ticker)

\* C9: the calls of a cycle come in the order of the Rating Source's records,
\* and for each record Client A, then Client B, then the score; the score of
\* record k precedes the Client A call of record k + 1.
C9_CallOrder ==
    \A p \in DOMAIN calls :
        /\ p = 1 => calls[p] = Call("karenai", 0, "")
        /\ p > 1 /\ calls[p].op # "upsert" =>
             /\ p <= 3 * Len(ratings) + 1
             /\ calls[p] = LoopCall(p)

C9_Witness ==
    /\ pc = "upsert"
    /\ calls = <<Call("karenai", 0, ""),
                 Call("finnhub", 1, "BBB"), Call("alphavantage", 1, "BBB"),
                 Call("score", 1, "BBB"),
                 Call("finnhub", 2, "AAA"), Call("alphavantage", 2, "AAA"),
                 Call("score", 2, "AAA")>>
    /\ errA = <<TRUE, FALSE>>

\* the three states of a cycle, and its end
Phase(p) ==
    CASE p = "ratings" -> 1
      [] p \in {"finnhub", "alpha", "score"} -> 2
      [] p = "upsert" -> 3
      [] OTHER -> 4

SinglePersist ==
    /\ Cardinality(CallsOf("upsert")) <= 1
    /\ Returned /\ karenaiErr = "nil" => Cardinality(CallsOf("upsert")) = 1
    /\ \A p \in CallsOf("upsert") :
         /\ p = Len(calls)
         /\ p = 3 * Len(ratings) + 2
         /\ Returned
         /\ batch = stocksFromKarenai
         /\ Len(batch) = Len(ratings)
         /\ \A k \in DOMAIN ratings :
              \E q \in 1..(p - 1) : calls[q] = Call("score", k, ratings[k].Ticker)
    /\ pc = "saved" => \A k \in DOMAIN batch : batch[k].Ticker \in DOMAIN db

Forward == Phase(pc') >= Phase(pc)

\* C10: a cycle only moves forward through Fetching-Ratings, Per-Ticker-
\* Enrichment and Persisting; a cycle whose rating fetch succeeded calls
\* UpsertStocks exactly once, after every record was enriched and scored,
\* with the whole batch, and that call is the last external call of the cycle.
C10_ForwardSinglePersist == []SinglePersist /\ [][Forward]_vars

C10_Witness ==
    /\ pc = "saved"
    /\ Len(ratings) = 2
    /\ Len(calls) = 8
    /\ calls[8] = Call("upsert", 0, "")
    /\ DOMAIN db = {"AAA", "BBB"}

(***************************************************************************)
(* CalculateRecommendationScore on its own: the function applied to        *)
(* records drawn from bounded sets.                                        *)
(***************************************************************************)
ScoreActions == {"Buy", "Strong Buy", "buy", "Hold", "Sell", "Neutral", "target lowered by"}
ScorePrices == {0, 50, 100}
ScoreTargets ==
    {AbsentFloat} \cup {NewNullFloat64(t) : t \in {0, 10, 55, 56, 60, 105, 110, 111, 120}}

ScoreInputs ==
    {[DecodeStock(RawItem("AAA", action, "null")) EXCEPT
        !.TargetTo = target, !.CurrentPrice = price, !.Alpha = alpha, !.PERatio = pe] :
       action \in ScoreActions, price \in ScorePrices, target \in ScoreTargets,
       alpha \in {AbsentFloat, NewNullFloat64(7)},
       pe \in {AbsentFloat, NewNullFloat64(15)}}

ScoreInit ==
    /\ sched = FirstCycle
    /\ pc = "ratings"
    /\ stocksFromKarenai = <<>>
    /\ i = 0
    /\ karenaiErr = "pending"
    /\ finnhubResp = NoFinnhubResponse
    /\ finnhubMetrics = NoFinnhubData
    /\ alphaResp = NoAlphaResponse
    /\ alphaVantageData = NoAlphaVantageData
    /\ ratings = <<>>
    /\ errA = <<>>
    /\ errB = <<>>
    /\ calls = <<>>
    /\ batch = <<>>
    /\ db = EmptyTable
    /\ db0 = db
    /\ nextId = 1
    /\ now = 2
    /\ probe \in {[op |-> "score", stock |-> s, done |-> FALSE, score |-> 0] :
                    s \in ScoreInputs}

ApplyScore ==
    /\ probe.op = "score"
    /\ ~probe.done
    /\ probe' = [probe EXCEPT !.done = TRUE,
                              !.score = CalculateRecommendationScore(probe.stock)]
    /\ UNCHANGED <<pc, stocksFromKarenai, i, karenaiErr, finnhubResp, finnhubMetrics,
                   alphaResp, alphaVantageData, ratings, errA, errB, calls, batch, db,
                   db0, nextId, now, sched>>

ScoreNext == ApplyScore

ScoreSpec == ScoreInit /\ [][ScoreNext]_vars

\* the reference: 5 for the action, 3 for the target
ActionPoints(action) == IF action \in {"Buy", "Strong Buy"} THEN 5 ELSE 0
TargetPoints(price, target) ==
    IF price > 0 /\ target.Valid /\ 10 * target.Float64 > 11 * price THEN 3 ELSE 0

\* the scores the specification and the test table list
ScoreExamples ==
    {<<"Buy", 100, NewNullFloat64(120), 8>>,
     <<"Strong Buy", 50, NewNullFloat64(60), 8>>,
     <<"Hold", 100, NewNullFloat64(120), 3>>,
     <<"Buy", 100, NewNullFloat64(105), 5>>,
     <<"Buy", 100, NewNullFloat64(110), 5>>,
     <<"Buy", 100, AbsentFloat, 5>>,
     <<"Buy", 100, NewNullFloat64(0), 5>>,
     <<"Neutral", 100, NewNullFloat64(105), 0>>,
     <<"Sell", 100, NewNullFloat64(120), 3>>,
     <<"buy", 100, NewNullFloat64(120), 3>>,
     <<"Buy", 0, NewNullFloat64(10), 5>>}

\* C7: CalculateRecommendationScore is 5 for the action "Buy" or "Strong
\* Buy" (exact match) plus 3 when currentPrice > 0 and targetTo is present and
\* strictly above 1.1 times currentPrice; it depends on action, currentPrice
\* and targetTo alone.
C7_ScoreEqualsReference ==
    probe.op = "score" /\ probe.done =>
        /\ probe.score = ActionPoints(probe.stock.Action)
                         + TargetPoints(probe.stock.CurrentPrice, probe.stock.TargetTo)
        /\ \A e \in ScoreExamples :
             /\ probe.stock.Action = e[1]
             /\ probe.stock.CurrentPrice = e[2]
             /\ probe.stock.TargetTo = e[3]
             => probe.score = e[4]

C7_Witness ==
    /\ probe.op = "score"
    /\ probe.done
    /\ probe.stock.Action = "Buy"
    /\ probe.stock.CurrentPrice = 100
    /\ probe.stock.TargetTo = NewNullFloat64(110)
    /\ probe.stock.Alpha = NewNullFloat64(7)
    /\ probe.score = 5

(***************************************************************************)
(* cockroachDB.UpsertStocks on its own: a sequence of calls with batches   *)
(* of any content, on a table that starts empty.  The in-memory records    *)
(* carry an ID, a CreatedAt and an UpdatedAt of their own (70.., 60, 50),  *)
(* none of which is a value the database generates (ids 1.., clock 2..).   *)
(***************************************************************************)
MaxBatch == 2       \* longest batch of one UpsertStocks call
MaxUpserts == 2     \* UpsertStocks calls in a row

DbStock(ticker, v) ==
    IF v = 1
    THEN [ID |-> 71, Ticker |-> ticker, Company |-> ticker \o " Inc",
          Brokerage |-> "Broker", Action |-> "Buy", RatingFrom |-> "Neutral",
          RatingTo |-> "Buy", TargetFrom |-> NewNullFloat64(110),
          TargetTo |-> NewNullFloat64(120), CurrentPrice |-> 100,
          PERatio |-> NewNullFloat64(15), DividendYield |-> NewNullFloat64(2),
          MarketCapitalization |-> NewNullFloat64(500), Alpha |-> NewNullFloat64(0),
          LatestTradingDay |-> NullTime(1700000000, TRUE),
          RecommendationScore |-> NewNullFloat64(8),
          CreatedAt |-> 60, UpdatedAt |-> 50]
    ELSE [ID |-> 72, Ticker |-> ticker, Company |-> ticker \o " Corp",
          Brokerage |-> "Other Broker", Action |-> "Hold", RatingFrom |-> "Buy",
          RatingTo |-> "Neutral", TargetFrom |-> NewNullFloat64(120),
          TargetTo |-> AbsentFloat, CurrentPrice |-> 0,
          PERatio |-> AbsentFloat, DividendYield |-> AbsentFloat,
          MarketCapitalization |-> AbsentFloat, Alpha |-> AbsentFloat,
          LatestTradingDay |-> AbsentTime,
          RecommendationScore |-> NewNullFloat64(0),
          CreatedAt |-> 60, UpdatedAt |-> 50]

DbStocks == {DbStock(ticker, v) : ticker \in {"AAA", "BBB"}, v \in {1, 2}}

DbBatches == SeqsUpTo(DbStocks, MaxBatch)

\* what can go wrong in a call with this batch: an empty batch returns
\* before BeginTx (db.go:308-310), and only a row of the batch can fail
DbOutcomes(stocks) ==
    IF Len(stocks) = 0 THEN {[kind |-> "ok", failAt |-> 0]}
    ELSE {[kind |-> k, failAt |-> 0] : k \in {"ok", "begin", "prepare", "commit"}}
         \cup {[kind |-> "exec", failAt |-> k] : k \in 1..Len(stocks)}

DbInit ==
    /\ sched = FirstCycle
    /\ pc = "ratings"
    /\ stocksFromKarenai = <<>>
    /\ i = 0
    /\ karenaiErr = "pending"
    /\ finnhubResp = NoFinnhubResponse
    /\ finnhubMetrics = NoFinnhubData
    /\ alphaResp = NoAlphaResponse
    /\ alphaVantageData = NoAlphaVantageData
    /\ ratings = <<>>
    /\ errA = <<>>
    /\ errB = <<>>
    /\ calls = <<>>
    /\ batch = <<>>
    /\ db = EmptyTable
    /\ db0 = db
    /\ nextId = 1
    /\ now = 2
    /\ probe = [op |-> "upsert", n |-> 0, outcome |-> [kind |-> "ok", failAt |-> 0],
                err |-> "nil", at |-> 0]

\* one call of UpsertStocks; db0 and batch keep the table before the call and
\* the argument, probe the outcome; the clock has moved on when the next
\* call is made
DbUpsert ==
    /\ probe.n < MaxUpserts
    /\ \E stocks \in DbBatches :
         \E outcome \in DbOutcomes(stocks) :
            LET r == UpsertStocks(db, nextId, stocks, outcome, now)
            IN /\ db' = r.table
               /\ nextId' = r.nextId
               /\ batch' = stocks
               /\ probe' = [op |-> "upsert", n |-> probe.n + 1, outcome |-> outcome,
                            err |-> r.err, at |-> now]
    /\ db0' = db
    /\ now' = now + 1
    /\ UNCHANGED <<pc, stocksFromKarenai, i, karenaiErr, finnhubResp, finnhubMetrics,
                   alphaResp, alphaVantageData, ratings, errA, errB, calls, sched>>

DbNext == DbUpsert

DbSpec == DbInit /\ [][DbNext]_vars

UpsertCalled == probe.op = "upsert" /\ probe.n > 0

\* the data columns of a row are those of the record s
Applied(row, s) ==
    /\ row.ticker = s.Ticker
    /\ row.company = s.Company
    /\ row.brokerage = s.Brokerage
    /\ row.action = s.Action
    /\ row.rating_from = s.RatingFrom
    /\ row.rating_to = s.RatingTo
    /\ row.target_from = s.TargetFrom
    /\ row.target_to = s.TargetTo
    /\ row.current_price = s.CurrentPrice
    /\ row.pe_ratio = s.PERatio
    /\ row.dividend_yield = s.DividendYield
    /\ row.market_capitalization = s.MarketCapitalization
    /\ row.alpha = s.Alpha
    /\ row.latest_trading_day = s.LatestTradingDay
    /\ row.recommendation_score = s.RecommendationScore

BatchTickers == {batch[k].Ticker : k \in DOMAIN batch}

\* C11: UpsertStocks is all-or-nothing.  When BeginTx, Prepare, the Exec of
\* any row or Commit fails, the call returns an error and the table is the
\* table before the call, the rows executed before the failure included;
\* when it returns nil, every record of the batch is in the table (for a
\* ticker that occurs twice, with the values of its last record).
C11_AllOrNothing ==
    UpsertCalled =>
        /\ probe.outcome.kind # "ok" => probe.err # "nil"
        /\ probe.err # "nil" => db = db0
        /\ probe.err = "nil" =>
             \A k \in DOMAIN batch :
                /\ batch[k].Ticker \in DOMAIN db
                /\ LastOfTicker(k) => Applied(db[batch[k].Ticker], batch[k])

C11_Witness ==
    /\ UpsertCalled
    /\ probe.err = "exec"
    /\ probe.outcome.failAt = 2
    /\ db0 # EmptyTable
    /\ batch[1].Ticker \notin DOMAIN db0

\* C12: after any sequence of UpsertStocks calls the table holds one row per
\* stored ticker: as many rows as tickers ever inserted, each with an id of
\* its own.  A call that returns nil leaves exactly the tickers stored before
\* plus those of the batch; a ticker already stored keeps its row (same id),
\* overwritten with the batch's values; of two records of one batch with the
\* same ticker the later one is the one stored; other rows are untouched.
C12_OneRowPerTicker ==
    /\ \A t \in DOMAIN db : db[t].ticker = t
    /\ \A t, u \in DOMAIN db : db[t].id = db[u].id => t = u
    /\ Cardinality(DOMAIN db) = nextId - 1
    /\ UpsertCalled /\ probe.err = "nil" =>
         /\ DOMAIN db = DOMAIN db0 \cup BatchTickers
         /\ \A t \in DOMAIN db0 \ BatchTickers : db[t] = db0[t]
         /\ \A t \in DOMAIN db0 \cap BatchTickers : db[t].id = db0[t].id
         /\ \A k \in DOMAIN batch :
              LastOfTicker(k) => Applied(db[batch[k].Ticker], batch[k])

C12_Witness ==
    /\ UpsertCalled
    /\ probe.err = "nil"
    /\ Len(batch) = 2
    /\ batch[1].Ticker = batch[2].Ticker
    /\ batch[1] # batch[2]
    /\ batch[1].Ticker \in DOMAIN db0
    /\ ~Applied(db0[batch[1].Ticker], batch[2])
    /\ Cardinality(DOMAIN db) = 1

MemoryIDs == {s.ID : s \in DbStocks}
MemoryCreatedAts == {s.CreatedAt : s \in DbStocks}
MemoryUpdatedAts == {s.UpdatedAt : s \in DbStocks}

\* C13: a successful upsert of a ticker that is already stored writes all
\* fifteen data columns of its row from the submitted record and sets
\* updated_at to the time of the call, later than the one stored; id and
\* created_at stay as the first insert wrote them.  A new ticker gets a fresh
\* id and created_at = updated_at = the time of the call.  No row ever holds
\* the ID, CreatedAt or UpdatedAt of an in-memory record.
C13_ReenrichmentOverwrites ==
    /\ \A t \in DOMAIN db :
          /\ db[t].id \notin MemoryIDs
          /\ db[t].created_at \notin MemoryCreatedAts
          /\ db[t].updated_at \notin MemoryUpdatedAts
    /\ UpsertCalled /\ probe.err = "nil" =>
         \A k \in DOMAIN batch :
            LastOfTicker(k) =>
               LET t == batch[k].Ticker
               IN /\ Applied(db[t], batch[k])
                  /\ db[t].updated_at = probe.at
                  /\ t \in DOMAIN db0 =>
                       /\ db[t].id = db0[t].id
                       /\ db[t].created_at = db0[t].created_at
                       /\ db[t].updated_at > db0[t].updated_at
                  /\ t \notin DOMAIN db0 =>
                       /\ db[t].created_at = probe.at
                       /\ \A u \in DOMAIN db0 : db[t].id # db0[u].id

C13_Witness ==
    /\ UpsertCalled
    /\ probe.err = "nil"
    /\ batch = <<DbStock("AAA", 2)>>
    /\ "AAA" \in DOMAIN db0
    /\ Applied(db0["AAA"], DbStock("AAA", 1))
    /\ db["AAA"].created_at < db["AAA"].updated_at

(***************************************************************************)
(* Two cycles in a row against upstream sources that answer the second     *)
(* cycle as they answered the first: the Rating Source with one payload,   *)
(* Finnhub and Alpha Vantage with one answer per ticker.  probe holds the  *)
(* answers; only the outcome of UpsertStocks is free in each cycle.        *)
(***************************************************************************)
MaxReplay == 2      \* longest item list of the replayed Rating Source payload

ReplayItems == {RawItem("AAA", "Buy", "120"), RawItem("BBB", "Hold", "null")}

ReplayKarenaiResponses ==
    {KarenaiResponse(TRUE, "ok", 500, TRUE, <<>>)}
    \cup {KarenaiResponse(TRUE, "ok", StatusOK, TRUE, items) :
            items \in SeqsUpTo(ReplayItems, MaxReplay)}

ReplayFinnhubResponses ==
    {[key |-> TRUE, metrics |-> MetricsFailure("status"),
      quote |-> QuotePayload(Member(100), Member(1700000000))],
     [key |-> TRUE,
      metrics |-> MetricsPayload(Member(15), Member(12), Member(2), Member(3), Member(500)),
      quote |-> QuotePayload(Member(100), Member(1700000000))],
     [key |-> TRUE,
      metrics |-> MetricsPayload(NoMember, Member(12), Member(0), NoMember, NoMember),
      quote |-> QuotePayload(Member(100), Member(0))]}

ReplayAlphaVantageResponses ==
    {AlphaResponse(TRUE, "status", "absent", "absent", "absent", "absent"),
     AlphaResponse(TRUE, "ok", "absent", "absent", "object", "2024-01-02")}

ReplayTickers == {item.ticker : item \in ReplayItems}

ReplayOutcomes ==
    {[kind |-> "ok", failAt |-> 0], [kind |-> "commit", failAt |-> 0],
     [kind |-> "exec", failAt |-> 1]}

\* a call of fetchAndEnrichStocks begins: its locals are fresh, and db0
\* remembers the table it finds
CycleStart ==
    /\ pc' = "ratings"
    /\ stocksFromKarenai' = <<>>
    /\ i' = 0
    /\ karenaiErr' = "pending"
    /\ finnhubResp' = NoFinnhubResponse
    /\ finnhubMetrics' = NoFinnhubData
    /\ alphaResp' = NoAlphaResponse
    /\ alphaVantageData' = NoAlphaVantageData
    /\ ratings' = <<>>
    /\ errA' = <<>>
    /\ errB' = <<>>
    /\ calls' = <<>>
    /\ batch' = <<>>
    /\ db0' = db

ReplayInit ==
    /\ sched = FirstCycle
    /\ pc = "ratings"
    /\ stocksFromKarenai = <<>>
    /\ i = 0
    /\ karenaiErr = "pending"
    /\ finnhubResp = NoFinnhubResponse
    /\ finnhubMetrics = NoFinnhubData
    /\ alphaResp = NoAlphaResponse
    /\ alphaVantageData = NoAlphaVantageData
    /\ ratings = <<>>
    /\ errA = <<>>
    /\ errB = <<>>
    /\ calls = <<>>
    /\ batch = <<>>
    /\ db \in InitialTables
    /\ db0 = db
    /\ nextId = Cardinality(DOMAIN db) + 1
    /\ now = 2
    /\ probe \in {[op |-> "replay", run |-> 1, first |-> "none", karenai |-> k,
                   finnhub |-> f, alpha |-> a] :
                    k \in ReplayKarenaiResponses,
                    f \in [ReplayTickers -> ReplayFinnhubResponses],
                    a \in [ReplayTickers -> ReplayAlphaVantageResponses]}

ReplayRatings == FetchRatingsFrom({probe.karenai})

ReplayFinnhub ==
    /\ pc = "finnhub"
    /\ CallFinnhubFrom({probe.finnhub[stocksFromKarenai[i].Ticker]})

ReplayAlphaVantage ==
    /\ pc = "alpha"
    /\ CallAlphaVantageFrom({probe.alpha[stocksFromKarenai[i].Ticker]})

ReplayPersist == PersistWith(ReplayOutcomes)

\* enricher.go:36-38: the next tick starts the second cycle, a day later;
\* probe.first keeps how the first one ended
Rerun ==
    /\ Returned
    /\ probe.run = 1
    /\ CycleStart
    /\ now' = now + 1
    /\ probe' = [probe EXCEPT !.run = 2, !.first = pc]
    /\ UNCHANGED <<db, nextId, sched>>

ReplayNext ==
    ReplayRatings \/ ReplayFinnhub \/ ReplayAlphaVantage \/ Score \/ ReplayPersist
    \/ Rerun

ReplaySpec == ReplayInit /\ [][ReplayNext]_vars

SecondRunReturned == probe.op = "replay" /\ probe.run = 2 /\ Returned

\* two tables hold the same rows, updated_at aside
SameRows(a, b) ==
    /\ DOMAIN a = DOMAIN b
    /\ \A t \in DOMAIN a : [a[t] EXCEPT !.updated_at = 0] = [b[t] EXCEPT !.updated_at = 0]

SchedKarenaiResponses ==
    {KarenaiResponse(TRUE, "ok", 500, TRUE, <<>>),
     KarenaiResponse(TRUE, "ok", StatusOK, TRUE, <<RawItem("AAA", "Buy", "120")>>)}

SchedFinnhubResponses ==
    {[key |-> TRUE, metrics |-> MetricsFailure("status"), quote |-> QuoteFailure("request")],
     [key |-> TRUE,
      metrics |-> MetricsPayload(Member(15), Member(12), Member(2), Member(3), Member(500)),
      quote |-> QuotePayload(Member(100), Member(1700000000))]}

SchedAlphaVantageResponses ==
    {AlphaResponse(TRUE, "request", "absent", "absent", "absent", "absent"),
     AlphaResponse(TRUE, "ok", "absent", "absent", "object", "2024-01-02")}

SchedOutcomes == {[kind |-> "ok", failAt |-> 0], [kind |-> "commit", failAt |-> 0]}

SchedInit ==
    /\ sched = FirstCycle
    /\ pc = "ratings"
    /\ stocksFromKarenai = <<>>
    /\ i = 0
    /\ karenaiErr = "pending"
    /\ finnhubResp = NoFinnhubResponse
    /\ finnhubMetrics = NoFinnhubData
    /\ alphaResp = NoAlphaResponse
    /\ alphaVantageData = NoAlphaVantageData
    /\ ratings = <<>>
    /\ errA = <<>>
    /\ errB = <<>>
    /\ calls = <<>>
    /\ batch = <<>>
    /\ db = EmptyTable
    /\ db0 = db
    /\ nextId = 1
    /\ now = 2
    /\ probe = [op |-> "schedule"]

SchedRatings == FetchRatingsFrom(SchedKarenaiResponses)
SchedFinnhub == CallFinnhubFrom(SchedFinnhubResponses)
SchedAlphaVantage == CallAlphaVantageFrom(SchedAlphaVantageResponses)
SchedPersist == PersistWith(SchedOutcomes)

CycleVars == <<pc, stocksFromKarenai, i, karenaiErr, finnhubResp, finnhubMetrics,
               alphaResp, alphaVantageData, ratings, errA, errB, calls, batch, db0>>

\* fetchAndEnrichStocks returns to StartFetching (enricher.go:52, 121, 124):
\* after the first call to enricher.go:33, later to the head of the loop
Return_StopsOnFailure ==
    /\ sched.loc = "cycle"
    /\ Returned
    /\ sched' = [sched EXCEPT !.loc = IF pc # "saved" THEN "stopped"
                                      ELSE IF sched.created THEN "range"
                                      ELSE "newticker",
                              !.prev = pc,
                              !.running = @ - 1]
    /\ UNCHANGED <<CycleVars, db, nextId, now, probe>>

Return ==
    /\ sched.loc = "cycle"
    /\ Returned
    /\ sched' = [sched EXCEPT !.loc = IF sched.created THEN "range" ELSE "newticker",
                              !.prev = pc,
                              !.running = @ - 1]
    /\ UNCHANGED <<CycleVars, db, nextId, now, probe>>

\* enricher.go:33-34
NewTicker ==
    /\ sched.loc = "newticker"
    /\ sched' = [sched EXCEPT !.loc = "range", !.created = TRUE]
    /\ UNCHANGED <<CycleVars, db, nextId, now, probe>>

\* the runtime's timer, every 24 hours: a tick is put into ticker.C, or
\* dropped when the one before it has not been received yet
Tick ==
    /\ sched.created
    /\ sched' = IF sched.buffered = 0 THEN [sched EXCEPT !.buffered = 1]
                ELSE [sched EXCEPT !.missed = TRUE]
    /\ UNCHANGED <<CycleVars, db, nextId, now, probe>>

\* enricher.go:36-38: a tick is received and fetchAndEnrichStocks is called,
\* by this goroutine
Receive_InNewGoroutine ==
    /\ sched.created
    /\ sched.buffered = 1
    /\ sched' = [sched EXCEPT !.loc = "cycle", !.buffered = 0, !.missed = FALSE,
                              !.running = @ + 1]
    /\ CycleStart
    /\ UNCHANGED <<db, nextId, now, probe>>

Receive ==
    /\ sched.loc = "range"
    /\ sched.buffered = 1
    /\ sched' = [sched EXCEPT !.loc = "cycle", !.buffered = 0, !.missed = FALSE,
                              !.running = @ + 1]
    /\ CycleStart
    /\ UNCHANGED <<db, nextId, now, probe>>

SchedNext ==
    \/ SchedRatings \/ SchedFinnhub \/ SchedAlphaVantage \/ Score \/ SchedPersist
    \/ Return \/ NewTicker \/ Tick \/ Receive

SchedSpec == SchedInit /\ [][SchedNext]_vars

\* the goroutine is scheduled whenever it can take a step of StartFetching,
\* and the timer keeps firing
FairSchedSpec ==
    /\ SchedInit
    /\ [][SchedNext]_vars
    /\ WF_vars(Return \/ NewTicker \/ Receive)
    /\ WF_vars(Tick)

CycleStarts == sched'.running = sched.running + 1

StartsAfterReturn == CycleStarts => sched.running = 0 /\ Returned /\ sched.loc = "range"

\* C15: at most one call of fetchAndEnrichStocks made by StartFetching is in
\* progress at any moment, and a call is made only when the previous one has
\* returned; ticks that arrive while a cycle is running wait in the channel
\* or are dropped.
C15_OneCycleAtATime ==
    /\ [](sched.running \in {0, 1})
    /\ [](sched.loc = "cycle" <=> sched.running = 1)
    /\ [][StartsAfterReturn]_vars

C15_Witness ==
    /\ sched.loc = "cycle"
    /\ sched.running = 1
    /\ pc = "alpha"
    /\ sched.prev # "none"
    /\ sched.buffered = 1
    /\ sched.missed

FirstCycleImmediately ==
    sched.prev = "none" => sched.loc = "cycle" /\ ~sched.created /\ sched.buffered = 0

TickReceived == sched'.buffered < sched.buffered

TickStartsCycle == TickReceived => pc' = "ratings" /\ sched'.loc = "cycle"

\* C16: StartFetching is inside its first cycle from the start, before the
\* ticker exists; every tick it receives starts a cycle; and however a cycle
\* ended (Rating Source failure, persistence failure, saved), another cycle
\* starts later, provided the goroutine is scheduled and the timer fires.
C16_ScheduleNeverStops ==
    /\ []FirstCycleImmediately
    /\ [][TickStartsCycle]_vars
    /\ (Returned ~> pc = "ratings")

C16_Witness ==
    /\ sched.prev = "upsert failed"
    /\ sched.loc = "cycle"
    /\ pc = "ratings"
    /\ db0 = EmptyTable

(***************************************************************************)
(* One cycle again (Spec): calls made more than once.                      *)
(***************************************************************************)
CallsFor(op, k) == {p \in DOMAIN calls : calls[p].op = op /\ calls[p].idx = k}

\* C17: in one cycle GetRecommendationsFromKarenai is called once, and
\* sends at most one request, for the first page; Client A and Client B are
\* called at most once per record, and once each per record by the time the
\* batch is submitted, whether they failed or not; UpsertStocks is called at
\* most once, and a cycle that ended in a persistence failure has called it
\* once.
C17_NothingRetried ==
    /\ Cardinality(CallsOf("karenai")) = (IF pc = "ratings" THEN 0 ELSE 1)
    /\ \A resp \in KarenaiResponses : KarenaiRequests(resp) \in {<<>>, <<"first page">>}
    /\ \A k \in DOMAIN ratings :
          /\ Cardinality(CallsFor("finnhub", k)) <= 1
          /\ Cardinality(CallsFor("alphavantage", k)) <= 1
          /\ pc = "upsert" \/ Submitted =>
               /\ Cardinality(CallsFor("finnhub", k)) = 1
               /\ Cardinality(CallsFor("alphavantage", k)) = 1
    /\ Cardinality(CallsOf("finnhub")) <= Len(ratings)
    /\ Cardinality(CallsOf("alphavantage")) <= Len(ratings)
    /\ Cardinality(CallsOf("upsert")) <= 1
    /\ pc = "upsert failed" => Cardinality(CallsOf("upsert")) = 1

C17_Witness ==
    /\ pc = "upsert failed"
    /\ Len(ratings) = 2
    /\ errA = <<TRUE, FALSE>>
    /\ errB = <<TRUE, TRUE>>
    /\ Cardinality(CallsOf("finnhub")) = 2
    /\ Cardinality(CallsOf("upsert")) = 1

\* the members of a /stock/metric payload that can supply each field
ProvidesPE(m) == m.peExclExtraTTM.present \/ m.peRatio.present
ProvidesDividendYield(m) == m.dividendYieldAnnually.present \/ m.dividendYield.present
ProvidesMarketCap(m) == m.marketCapitalization.present

\* C18: a field for which the upstream payload had no value is absent in the
\* record, never present with 0: after a successful Client A call, peRatio,
\* dividendYield and marketCapitalization are absent when the metrics
\* payload has neither the preferred nor the alternate member for them; and
\* alpha, for which the Alpha Vantage payload has no member at all, is absent
\* after the Client B call.
C18_MissingNeverZero ==
    /\ pc = "alpha" /\ finnhubMetrics.Error = NoError =>
         LET s == stocksFromKarenai[i]
             m == finnhubResp.metrics
         IN /\ ~ProvidesPE(m) => ~s.PERatio.Valid
            /\ ~ProvidesDividendYield(m) => ~s.DividendYield.Valid
            /\ ~ProvidesMarketCap(m) => ~s.MarketCapitalization.Valid
    /\ pc = "score" => ~(stocksFromKarenai[i].Alpha.Valid
                         /\ stocksFromKarenai[i].Alpha.Float64 = 0)

(***************************************************************************)
(* backend/models: MarshalJSON and UnmarshalJSON of NullFloat64 and        *)
(* NullTime, applied one after the other to a value of each type.  A       *)
(* time.Time is [sec, nsec] here, whole seconds and the fraction of a      *)
(* second in nanoseconds; sec = ZeroTime, nsec = 0 is the zero time.Time.  *)
(***************************************************************************)
Instant(sec, nsec) == [sec |-> sec, nsec |-> nsec]

Digit(d) ==
    CASE d = 0 -> "0" [] d = 1 -> "1" [] d = 2 -> "2" [] d = 3 -> "3" [] d = 4 -> "4"
      [] d = 5 -> "5" [] d = 6 -> "6" [] d = 7 -> "7" [] d = 8 -> "8" [] d = 9 -> "9"

\* json.Marshal of a float64 that is a whole number, not negative: its
\* decimal digits
RECURSIVE FormatFloat(_)
FormatFloat(f) == IF f < 10 THEN Digit(f) ELSE FormatFloat(f \div 10) \o Digit(f % 10)

\* NullFloat64.MarshalJSON, part_000:19-24
NullFloat64_MarshalJSON_OmitsZero(nf) ==
    IF ~nf.Valid \/ nf.Float64 = 0 THEN "null" ELSE FormatFloat(nf.Float64)

NullFloat64_MarshalJSON(nf) ==
    IF ~nf.Valid THEN "null" ELSE FormatFloat(nf.Float64)

\* Time.Format(time.RFC3339) on the instants in use, in UTC: the layout
\* "2006-01-02T15:04:05Z07:00" has no fraction of a second
RFC3339Text ==
    [sec \in {ZeroTime, 1600000000, 1700000000, 20240102} |->
        CASE sec = ZeroTime -> "0001-01-01T00:00:00Z"
          [] sec = 1600000000 -> "2020-09-13T12:26:40Z"
          [] sec = 1700000000 -> "2023-11-14T22:13:20Z"
          [] sec = 20240102 -> "2024-01-02T00:00:00Z"]

FormatRFC3339(t) == RFC3339Text[t.sec]

\* json.Marshal of a Go string without characters to escape
Quote(s) == "\"" \o s \o "\""

\* NullTime.MarshalJSON, part_000:57-62
NullTime_MarshalJSON(nt) ==
    IF ~nt.Valid THEN "null" ELSE Quote(FormatRFC3339(nt.Time))

\* time.Parse(time.RFC3339, s) on the strings in use; a fraction of a second
\* in s is accepted and kept
ParseRFC3339 ==
    [s \in {"0001-01-01T00:00:00Z", "2020-09-13T12:26:40Z", "2023-11-14T22:13:20Z",
            "2023-11-14T22:13:20.5Z", "2024-01-02T00:00:00Z"} |->
        CASE s = "0001-01-01T00:00:00Z" -> Instant(ZeroTime, 0)
          [] s = "2020-09-13T12:26:40Z" -> Instant(1600000000, 0)
          [] s = "2023-11-14T22:13:20Z" -> Instant(1700000000, 0)
          [] s = "2023-11-14T22:13:20.5Z" -> Instant(1700000000, 500000000)
          [] s = "2024-01-02T00:00:00Z" -> Instant(20240102, 0)]

TimeTexts == DOMAIN ParseRFC3339 \cup DOMAIN DateLayout \cup {"yesterday"}

\* part_000:73-75: the text between the quotes, when data is quoted
Unquote(data) ==
    IF \E s \in TimeTexts : data = Quote(s)
    THEN CHOOSE s \in TimeTexts : data = Quote(s)
    ELSE data

\* NullTime.UnmarshalJSON applied to a fresh (zero) value, part_000:65-95
NullTime_UnmarshalJSON(data) ==
    IF data = "null" \/ data = "" \/ data = "\"\""
    THEN [nt |-> NullTime(Instant(ZeroTime, 0), FALSE), err |-> FALSE]
    ELSE LET s == Unquote(data)
         IN IF s \in DOMAIN ParseRFC3339
            THEN [nt |-> NullTime(ParseRFC3339[s], TRUE), err |-> FALSE]
            ELSE IF s \in DOMAIN DateLayout
            THEN [nt |-> NullTime(Instant(DateLayout[s], 0), TRUE), err |-> FALSE]
            ELSE [nt |-> NullTime(Instant(ZeroTime, 0), FALSE), err |-> TRUE]

RoundTripFloats == {AbsentFloat} \cup {NewNullFloat64(f) : f \in {0, 110, 120}}

RoundTripTimes ==
    {NullTime(Instant(ZeroTime, 0), FALSE)}
    \cup {NullTime(Instant(sec, nsec), TRUE) :
            sec \in DOMAIN RFC3339Text, nsec \in {0, 500000000}}

RoundTripInit ==
    /\ sched = FirstCycle
    /\ pc = "ratings"
    /\ stocksFromKarenai = <<>>
    /\ i = 0
    /\ karenaiErr = "pending"
    /\ finnhubResp = NoFinnhubResponse
    /\ finnhubMetrics = NoFinnhubData
    /\ alphaResp = NoAlphaResponse
    /\ alphaVantageData = NoAlphaVantageData
    /\ ratings = <<>>
    /\ errA = <<>>
    /\ errB = <<>>
    /\ calls = <<>>
    /\ batch = <<>>
    /\ db = EmptyTable
    /\ db0 = db
    /\ nextId = 1
    /\ now = 2
    /\ probe \in {[op |-> "roundtrip", step |-> 0, nf |-> nf, nt |-> nt,
                   jsonF |-> "", jsonT |-> "",
                   backF |-> [nf |-> AbsentFloat, err |-> FALSE],
                   backT |-> [nt |-> NullTime(Instant(ZeroTime, 0), FALSE),
                              err |-> FALSE]] :
                    nf \in RoundTripFloats, nt \in RoundTripTimes}

\* json.Marshal of a value holding the two members
Marshal ==
    /\ probe.step = 0
    /\ probe' = [probe EXCEPT !.step = 1,
                              !.jsonF = NullFloat64_MarshalJSON(probe.nf),
                              !.jsonT = NullTime_MarshalJSON(probe.nt)]
    /\ UNCHANGED <<CycleVars, db, nextId, now, sched>>

\* json.Unmarshal of that text into a fresh value
Unmarshal ==
    /\ probe.step = 1
    /\ probe' = [probe EXCEPT !.step = 2,
                              !.backF = NullFloat64_UnmarshalJSON(probe.jsonF),
                              !.backT = NullTime_UnmarshalJSON(probe.jsonT)]
    /\ UNCHANGED <<CycleVars, db, nextId, now, sched>>

RoundTripNext == Marshal \/ Unmarshal

RoundTripSpec == RoundTripInit /\ [][RoundTripNext]_vars

RoundTripDone == probe.op = "roundtrip" /\ probe.step = 2

\* what the claim says of both types: absent gives null and comes back
\* absent, without error; a present NullFloat64 gives its digits and comes
\* back present and equal, 0 included
AbsentAndFloatRoundTrip ==
    /\ ~probe.nf.Valid => /\ probe.jsonF = "null"
                          /\ ~probe.backF.nf.Valid
    /\ ~probe.nt.Valid => /\ probe.jsonT = "null"
                          /\ ~probe.backT.nt.Valid
    /\ probe.nf.Valid => /\ probe.jsonF \notin {"null", "", "\"\""}
                         /\ probe.nf.Float64 = 0 => probe.jsonF = "0"
                         /\ probe.backF.nf = probe.nf
    /\ probe.nt.Valid => /\ probe.jsonT \notin {"null", "", "\"\""}
                         /\ probe.backT.nt.Valid
    /\ ~probe.backF.err
    /\ ~probe.backT.err
    /\ ~NullFloat64_UnmarshalJSON("null").nf.Valid
    /\ ~NullTime_UnmarshalJSON("null").nt.Valid

\* C19, as stated: NullFloat64 and NullTime round-trip through JSON; absent
\* marshals to null and null unmarshals to absent, a present value
\* unmarshals back to present with the same value.
C19_RoundTripExact ==
    RoundTripDone =>
        /\ AbsentAndFloatRoundTrip
        /\ probe.nt.Valid => probe.backT.nt.Time = probe.nt.Time

\* C19, amended: as stated, except that a present NullTime comes back as the
\* same instant cut to whole seconds (equal to the original when that has no
\* fraction of a second).
C19_RoundTripToTheSecond ==
    RoundTripDone =>
        /\ AbsentAndFloatRoundTrip
        /\ probe.nt.Valid => probe.backT.nt.Time = Instant(probe.nt.Time.sec, 0)

C19_Witness ==
    /\ RoundTripDone
    /\ probe.nf = NewNullFloat64(0)
    /\ probe.backF.nf = NewNullFloat64(0)
    /\ probe.nt = NullTime(Instant(1700000000, 500000000), TRUE)
    /\ probe.jsonT = "\"2023-11-14T22:13:20Z\""
    /\ probe.backT.nt = NullTime(Instant(1700000000, 0), TRUE)

(***************************************************************************)
(* NullFloat64.UnmarshalJSON as a method: the receiver may hold a value    *)
(* from before the call.                                                   *)
(***************************************************************************)
\* the inputs of TestNullFloat64_UnmarshalJSON (with 120 for 123.45) and
\* more of each kind
UnmarshalInputs ==
    {"null", " null ", "", "\"\"", "\"N/A\"", "\"n/a\"", "\"N/a\"", "\"n/A\"",
     "0", "110", "120",
     "\"abc\"", "\"120\"", "\"n/a \"", "\"none\"", "true"}

\* what the receiver holds before the call
UnmarshalReceivers ==
    {NullFloat64(0, FALSE), NullFloat64(7, FALSE), NewNullFloat64(0), NewNullFloat64(7)}

UnmarshalInit ==
    /\ sched = FirstCycle
    /\ pc = "ratings"
    /\ stocksFromKarenai = <<>>
    /\ i = 0
    /\ karenaiErr = "pending"
    /\ finnhubResp = NoFinnhubResponse
    /\ finnhubMetrics = NoFinnhubData
    /\ alphaResp = NoAlphaResponse
    /\ alphaVantageData = NoAlphaVantageData
    /\ ratings = <<>>
    /\ errA = <<>>
    /\ errB = <<>>
    /\ calls = <<>>
    /\ batch = <<>>
    /\ db = EmptyTable
    /\ db0 = db
    /\ nextId = 1
    /\ now = 2
    /\ probe \in {[op |-> "unmarshal", done |-> FALSE, data |-> data, nf |-> nf,
                   result |-> [nf |-> nf, err |-> FALSE]] :
                    data \in UnmarshalInputs, nf \in UnmarshalReceivers}

ApplyUnmarshal ==
    /\ probe.op = "unmarshal"
    /\ ~probe.done
    /\ probe' = [probe EXCEPT !.done = TRUE,
                              !.result = NullFloat64_UnmarshalJSONInto(probe.nf, probe.data)]
    /\ UNCHANGED <<CycleVars, db, nextId, now, sched>>

UnmarshalNext == ApplyUnmarshal

UnmarshalSpec == UnmarshalInit /\ [][UnmarshalNext]_vars

AbsentSpellings ==
    {"null", " null ", "", "\"\"", "\"N/A\"", "\"n/a\"", "\"N/a\"", "\"n/A\""}

NumberValue(data) == CASE data = "0" -> 0 [] data = "110" -> 110 [] data = "120" -> 120

NumberTokens == {"0", "110", "120"}

PipelineIdle ==
    /\ sched = FirstCycle
    /\ pc = "ratings"
    /\ stocksFromKarenai = <<>>
    /\ i = 0
    /\ karenaiErr = "pending"
    /\ finnhubResp = NoFinnhubResponse
    /\ finnhubMetrics = NoFinnhubData
    /\ alphaResp = NoAlphaResponse
    /\ alphaVantageData = NoAlphaVantageData
    /\ ratings = <<>>
    /\ errA = <<>>
    /\ errB = <<>>
    /\ calls = <<>>
    /\ batch = <<>>
    /\ db = EmptyTable
    /\ db0 = db
    /\ nextId = 1
    /\ now = 2

\* strconv.Atoi on the strings in use
Atoi(s) ==
    CASE s = "0" -> [n |-> 0, err |-> FALSE]
      [] s = "5" -> [n |-> 5, err |-> FALSE]
      [] s = "20" -> [n |-> 20, err |-> FALSE]
      [] s = "-1" -> [n |-> 0 - 1, err |-> FALSE]
      [] OTHER -> [n |-> 0, err |-> TRUE]

validSortColumns ==
    {"ticker", "company", "current_price", "action", "recommendation_score",
     "pe_ratio", "dividend_yield", "market_capitalization", "alpha"}

SelectFromStocks ==
    "SELECT id, ticker, company, brokerage, action, rating_from, rating_to, target_from, target_to, current_price, pe_ratio, dividend_yield, market_capitalization, alpha, latest_trading_day, recommendation_score, created_at, updated_at FROM stocks"

\* db.go:127-141
GetStockCount(searchQuery) ==
    IF searchQuery # ""
    THEN [text |-> <<"SELECT COUNT(*) FROM stocks",
                     " WHERE ticker ILIKE $1 OR company ILIKE $2">>,
          search |-> <<"%" \o searchQuery \o "%", "%" \o searchQuery \o "%">>,
          page |-> <<>>]
    ELSE [text |-> <<"SELECT COUNT(*) FROM stocks">>, search |-> <<>>, page |-> <<>>]

\* db.go:155-187: the SELECT that GetAllStocks sends
GetAllStocks_TrustsSortBy(opts) ==
    LET argCounter == IF opts.Search # "" THEN 3 ELSE 1
        where == IF opts.Search # ""
                 THEN <<" WHERE ticker ILIKE $", "1", " OR company ILIKE $", "2">>
                 ELSE <<>>
        orderBy == IF opts.SortBy # ""
                   THEN <<" ORDER BY ", opts.SortBy, " ",
                          IF opts.Order = "desc" THEN "DESC" ELSE "ASC">>
                   ELSE <<" ORDER BY ticker ASC">>
    IN [text |-> <<SelectFromStocks>> \o where \o orderBy
                 \o <<" LIMIT $", Digit(argCounter), " OFFSET $", Digit(argCounter + 1)>>,
        search |-> IF opts.Search # ""
                   THEN <<"%" \o opts.Search \o "%", "%" \o opts.Search \o "%">>
                   ELSE <<>>,
        page |-> <<opts.Limit, opts.Offset>>]

GetAllStocks(opts) ==
    LET argCounter == IF opts.Search # "" THEN 3 ELSE 1
        where == IF opts.Search # ""
                 THEN <<" WHERE ticker ILIKE $", "1", " OR company ILIKE $", "2">>
                 ELSE <<>>
        orderBy == IF opts.SortBy # ""
                   THEN <<" ORDER BY ",
                          IF opts.SortBy \in validSortColumns THEN opts.SortBy
                          ELSE "ticker",
                          " ",
                          IF opts.Order = "desc" THEN "DESC" ELSE "ASC">>
                   ELSE <<" ORDER BY ticker ASC">>
    IN [text |-> <<SelectFromStocks>> \o where \o orderBy
                 \o <<" LIMIT $", Digit(argCounter), " OFFSET $", Digit(argCounter + 1)>>,
        search |-> IF opts.Search # ""
                   THEN <<"%" \o opts.Search \o "%", "%" \o opts.Search \o "%">>
                   ELSE <<>>,
        page |-> <<opts.Limit, opts.Offset>>]

\* db.go:433-455: the options the handler makes of the URL query
StockQueryOptions(req) ==
    LET limit == Atoi(req.limit)
        offset == Atoi(req.offset)
    IN [Search |-> req.search,
        SortBy |-> req.sortBy,
        Order |-> ToLower(req.order),
        Limit |-> IF limit.err \/ limit.n <= 0 THEN 10 ELSE limit.n,
        Offset |-> IF offset.err \/ offset.n < 0 THEN 0 ELSE offset.n]

\* db.go:433-474: the queries of one request, in the order they are sent (the
\* count inside GetAllStocks, the SELECT, the handler's count), and the
\* status of the response; failed names the query the database rejects
GetStocks(req, failed) ==
    LET opts == StockQueryOptions(req)
        first == <<GetStockCount(opts.Search), GetAllStocks(opts)>>
    IN IF failed = "select"
       THEN [queries |-> first, status |-> 500]
       ELSE [queries |-> Append(first, GetStockCount(req.search)),
             status |-> IF failed = "count" THEN 500 ELSE StatusOK]

ListRequests ==
    {[sortBy |-> sb, order |-> o, search |-> q, limit |-> l, offset |-> f] :
        sb \in {"", "ticker", "alpha", "recommendation_score", "Ticker", "id",
                "created_at", "ticker; DROP TABLE stocks; --"},
        o \in {"", "asc", "desc", "DESC", "desc, id"},
        q \in {"", "AA", "%' OR '1'='1"},
        l \in {"", "5", "abc"},
        f \in {"", "20", "-1"}}

ListInit ==
    /\ PipelineIdle
    /\ probe \in {[op |-> "list", done |-> FALSE, req |-> req,
                   result |-> [queries |-> <<>>, status |-> 0]] : req \in ListRequests}

ServeGetStocks ==
    /\ probe.op = "list"
    /\ ~probe.done
    /\ \E failed \in {"none", "select", "count"} :
         probe' = [probe EXCEPT !.done = TRUE, !.result = GetStocks(probe.req, failed)]
    /\ UNCHANGED <<CycleVars, db, nextId, now, sched>>

ListNext == ServeGetStocks

ListSpec == ListInit /\ [][ListNext]_vars

ListServed == probe.op = "list" /\ probe.done

\* the pieces of SQL text that are written in the source
FixedSQL ==
    {SelectFromStocks, "SELECT COUNT(*) FROM stocks",
     " WHERE ticker ILIKE $1 OR company ILIKE $2",
     " WHERE ticker ILIKE $", " OR company ILIKE $",
     " ORDER BY ", " ", "ASC", "DESC", " ORDER BY ticker ASC",
     " LIMIT $", " OFFSET $", "1", "2", "3", "4"}

\* the column and the direction in the ORDER BY clause of a query text
OrderByColumn(text) ==
    IF \E k \in DOMAIN text : text[k] = " ORDER BY ticker ASC" THEN "ticker"
    ELSE text[1 + CHOOSE k \in DOMAIN text : text[k] = " ORDER BY "]

OrderByDirection(text) ==
    IF \E k \in DOMAIN text : text[k] = " ORDER BY ticker ASC" THEN "ASC"
    ELSE text[3 + CHOOSE k \in DOMAIN text : text[k] = " ORDER BY "]

\* every piece of every query is text of the source or an allow-listed
\* column, and the ORDER BY column is allow-listed, ticker for a sortBy that
\* is empty or not in the list
OnlyAllowListedText ==
    /\ \A q \in DOMAIN probe.result.queries :
          \A k \in DOMAIN probe.result.queries[q].text :
             probe.result.queries[q].text[k] \in FixedSQL \cup validSortColumns
    /\ LET text == probe.result.queries[2].text
       IN /\ OrderByColumn(text) \in validSortColumns
          /\ OrderByColumn(text) = IF probe.req.sortBy \in validSortColumns
                                   THEN probe.req.sortBy ELSE "ticker"
          /\ OrderByDirection(text) \in {"ASC", "DESC"}

\* C21, as stated: whatever sortBy and order the caller sends, the ORDER BY
\* column is allow-listed (ticker for an empty or unlisted sortBy), no other
\* caller text is part of a query, and the direction is DESC only when the
\* order parameter is "desc", ASC otherwise.
C21_OrderByAsStated ==
    ListServed =>
        /\ OnlyAllowListedText
        /\ OrderByDirection(probe.result.queries[2].text) = "DESC"
             => probe.req.order = "desc"

\* C21, amended: the same, with the direction DESC exactly when sortBy is
\* not empty and the order parameter is "desc" in any letter case.
C21_OrderByFromAllowList ==
    ListServed =>
        /\ OnlyAllowListedText
        /\ OrderByDirection(probe.result.queries[2].text) = "DESC"
             <=> (probe.req.sortBy # "" /\ ToLower(probe.req.order) = "desc")

C21_Witness ==
    /\ ListServed
    /\ probe.req.sortBy = "ticker; DROP TABLE stocks; --"
    /\ probe.req.order = "desc"
    /\ probe.req.search = "%' OR '1'='1"
    /\ probe.result.status = StatusOK
    /\ OrderByColumn(probe.result.queries[2].text) = "ticker"
    /\ OrderByDirection(probe.result.queries[2].text) = "DESC"

(***************************************************************************)
(* The frontend stock store (frontend/src/stores/stocks.ts).  The store    *)
(* is probe.store; probe.fetches holds one record per invocation of a      *)
(* fetch action, with the await it is suspended at.  JavaScript runs an    *)
(* action up to its next await without interruption, so each action below  *)
(* is one such run.  A Stock is its ticker; selectedStock, a Stock or      *)
(* null, is a sequence of at most one Stock.                               *)
(***************************************************************************)
MaxFetches == 2

null == "null"

StockState ==
    [stocks |-> <<>>, recommendedStocks |-> <<>>, selectedStock |-> <<>>,
     loading |-> FALSE, error |-> null]

FetchKinds == {"fetchStocks", "fetchRecommendedStocks", "fetchStockDetails"}

\* the state member an action writes its response to
TargetOf(store, kind) ==
    CASE kind = "fetchStocks" -> store.stocks
      [] kind = "fetchRecommendedStocks" -> store.recommendedStocks
      [] kind = "fetchStockDetails" -> store.selectedStock

\* the bodies response.json() can resolve to
Payloads(kind) ==
    IF kind = "fetchStockDetails" THEN {<<"TESTA">>, <<"TESTB">>}
    ELSE {<<>>, <<"TESTA", "TESTB">>, <<"TESTB">>}

InFlight(k) == probe.fetches[k].pos # "done"

StoreInit ==
    /\ PipelineIdle
    /\ probe = [op |-> "store", store |-> StockState, fetches |-> <<>>]

\* the part of an action before its first await
StartFetch ==
    /\ probe.op = "store"
    /\ Len(probe.fetches) < MaxFetches
    /\ \E kind \in FetchKinds :
         probe' = [probe EXCEPT
            !.store = [probe.store EXCEPT
                         !.loading = TRUE,
                         !.error = null,
                         !.selectedStock = IF kind = "fetchStockDetails" THEN <<>> ELSE @],
            !.fetches = Append(
                [k \in DOMAIN probe.fetches |->
                    [probe.fetches[k] EXCEPT !.alone = @ /\ ~InFlight(k)]],
                [kind |-> kind, pos |-> "fetch",
                 alone |-> \A k \in DOMAIN probe.fetches : ~InFlight(k),
                 before |-> TargetOf(probe.store, kind),
                 payload |-> <<>>, failure |-> null,
                 after |-> StockState])]
    /\ UNCHANGED <<CycleVars, db, nextId, now, sched>>

\* catch and finally, after invocation k threw the message
Throw_KeepsLoading(k, message) ==
    LET store == [probe.store EXCEPT !.error = message]
    IN [probe EXCEPT
          !.store = store,
          !.fetches[k] = [@ EXCEPT !.pos = "done", !.failure = message, !.after = store]]

Throw(k, message) ==
    LET store == [probe.store EXCEPT !.error = message, !.loading = FALSE]
    IN [probe EXCEPT
          !.store = store,
          !.fetches[k] = [@ EXCEPT !.pos = "done", !.failure = message, !.after = store]]

\* the assignment of the response and finally
Assign(k, data) ==
    LET kind == probe.fetches[k].kind
        store == [probe.store EXCEPT
                    !.stocks = IF kind = "fetchStocks" THEN data ELSE @,
                    !.recommendedStocks = IF kind = "fetchRecommendedStocks" THEN data ELSE @,
                    !.selectedStock = IF kind = "fetchStockDetails" THEN data ELSE @,
                    !.loading = FALSE]
    IN [probe EXCEPT
          !.store = store,
          !.fetches[k] = [@ EXCEPT !.pos = "done", !.payload = data, !.after = store]]

\* await fetch(...) settles
FetchSettles ==
    /\ probe.op = "store"
    /\ \E k \in DOMAIN probe.fetches :
         /\ probe.fetches[k].pos = "fetch"
         /\ \E outcome \in {"ok", "not ok", "rejected"} :
              probe' =
                CASE outcome = "ok" -> [probe EXCEPT !.fetches[k].pos = "json"]
                  [] outcome = "not ok" ->
                       IF probe.fetches[k].kind = "fetchRecommendedStocks"
                       THEN [probe EXCEPT !.fetches[k].pos = "text"]
                       ELSE Throw(k, "HTTP error! status: 500")
                  [] outcome = "rejected" -> Throw(k, "Failed to fetch")
    /\ UNCHANGED <<CycleVars, db, nextId, now, sched>>

\* await response.text() settles (fetchRecommendedStocks only)
TextSettles ==
    /\ probe.op = "store"
    /\ \E k \in DOMAIN probe.fetches :
         /\ probe.fetches[k].pos = "text"
         /\ \E outcome \in {"text", "rejected"} :
              probe' = IF outcome = "text"
                       THEN Throw(k, "HTTP error! status: 500, message: Server Error Mock")
                       ELSE Throw(k, "body stream already read")
    /\ UNCHANGED <<CycleVars, db, nextId, now, sched>>

\* await response.json() settles
JsonSettles ==
    /\ probe.op = "store"
    /\ \E k \in DOMAIN probe.fetches :
         /\ probe.fetches[k].pos = "json"
         /\ \/ \E data \in Payloads(probe.fetches[k].kind) : probe' = Assign(k, data)
            \/ probe' = Throw(k, "Unexpected end of JSON input")
    /\ UNCHANGED <<CycleVars, db, nextId, now, sched>>

StoreNext == StartFetch \/ FetchSettles \/ TextSettles \/ JsonSettles

StoreSpec == StoreInit /\ [][StoreNext]_vars

Completed(k) == probe.op = "store" /\ k \in DOMAIN probe.fetches /\ ~InFlight(k)

Failed(k) == Completed(k) /\ probe.fetches[k].failure # null

ListFetch(k) == probe.fetches[k].kind \in {"fetchStocks", "fetchRecommendedStocks"}

\* C22, as stated: when fetchStocks or fetchRecommendedStocks completes,
\* loading is false; after a success error is null and the target list is
\* the response payload; after a failure error is the failure message and
\* the target list is what it was before the call.
C22_FetchCompletesAsStated ==
    probe.op = "store" =>
      \A k \in DOMAIN probe.fetches :
         (Completed(k) /\ ListFetch(k)) =>
            LET f == probe.fetches[k]
                list == TargetOf(f.after, f.kind)
            IN /\ f.after.loading = FALSE
               /\ Failed(k) => (f.after.error = f.failure /\ list = f.before)
               /\ ~Failed(k) => (f.after.error = null /\ list = f.payload)

\* C22, amended: when fetchStocks or fetchRecommendedStocks completes, loading is
\* false; after a success the target list is the response payload, after a
\* failure error is the failure message; and for an invocation that no other
\* fetch overlapped, error is null after a success and the target list is
\* what it was before the call after a failure.
C22_FetchCompletes ==
    probe.op = "store" =>
      \A k \in DOMAIN probe.fetches :
         (Completed(k) /\ ListFetch(k)) =>
            LET f == probe.fetches[k]
                list == TargetOf(f.after, f.kind)
            IN /\ f.after.loading = FALSE
               /\ Failed(k) => f.after.error = f.failure
               /\ ~Failed(k) => list = f.payload
               /\ (f.alone /\ ~Failed(k)) => f.after.error = null
               /\ (f.alone /\ Failed(k)) => list = f.before

C22_Witness ==
    /\ Completed(1) /\ Completed(2)
    /\ probe.fetches[1].kind = "fetchRecommendedStocks"
    /\ probe.fetches[2].kind = "fetchRecommendedStocks"
    /\ probe.fetches[1].alone /\ probe.fetches[2].alone
    /\ probe.fetches[1].payload = <<"TESTA", "TESTB">> /\ ~Failed(1)
    /\ probe.fetches[2].failure = "HTTP error! status: 500, message: Server Error Mock"
    /\ probe.store.recommendedStocks = <<"TESTA", "TESTB">>
    /\ probe.store.loading = FALSE

\* C30: the shared loading flag is true whenever at least one fetch action
\* is still in flight, so that the completion of one fetch never sets
\* loading to false while another fetch is pending.
C30_LoadingWhileInFlight ==
    probe.op = "store" =>
       ((\E k \in DOMAIN probe.fetches : InFlight(k)) => probe.store.loading = TRUE)

\* the tickers of the current cycle's Rating Source result
ResultTickers == {stocksFromKarenai[k].Ticker : k \in DOMAIN stocksFromKarenai}

RowsKept ==
    /\ DOMAIN db \subseteq DOMAIN db'
    /\ \A k \in DOMAIN db : k \notin ResultTickers => db'[k] = db[k]

\* C23: no step of any cycle removes a row, and a stored ticker that is not
\* in the current cycle's Rating Source result keeps every column, updated_at
\* included.
C23_RowsOnlyGrow == [][RowsKept]_vars

C23_Witness ==
    /\ probe.op = "replay"
    /\ pc = "saved"
    /\ "AAA" \in DOMAIN db0
    /\ ResultTickers = {"BBB"}
    /\ DOMAIN db = {"AAA", "BBB"}
    /\ db["AAA"] = db0["AAA"]
    /\ db["AAA"].updated_at < db["BBB"].updated_at

(***************************************************************************)
(* One cycle with the steps of its client calls written down: probe.steps  *)
(* is the sequence of [op, idx, step] in the order the process performs    *)
(* them, probe.karenai the Rating Source response of the cycle.  The       *)
(* credentials are environment variables of the process, the same for      *)
(* every call of the cycle.                                                *)
(***************************************************************************)
TraceItems ==
    {RawItem("AAA", "Buy", "120"),
     RawItem("BBB", "Hold", "\"N/A\""),
     RawItem("CCC", "Strong Buy", "\"abc\"")}

TraceKarenaiResponses ==
    {KarenaiResponse(FALSE, "ok", StatusOK, TRUE, <<RawItem("AAA", "Buy", "120")>>),
     KarenaiResponse(TRUE, "request", StatusOK, TRUE, <<>>),
     KarenaiResponse(TRUE, "ok", 500, TRUE, <<RawItem("AAA", "Buy", "120")>>)}
    \cup {KarenaiResponse(TRUE, "ok", StatusOK, TRUE, items) :
            items \in SeqsUpTo(TraceItems, MaxTickers)}

TraceFinnhubResponses ==
    {[key |-> TRUE, metrics |-> MetricsFailure("status"), quote |-> QuoteFailure("request")],
     [key |-> TRUE,
      metrics |-> MetricsPayload(Member(15), Member(12), Member(2), Member(3), Member(500)),
      quote |-> QuotePayload(Member(100), Member(1700000000))]}

TraceAlphaVantageResponses ==
    {AlphaResponse(FALSE, "ok", "absent", "absent", "absent", "absent"),
     AlphaResponse(TRUE, "request", "absent", "absent", "absent", "absent"),
     AlphaResponse(TRUE, "ok", "absent", "string", "object", "2024-01-02"),
     AlphaResponse(TRUE, "ok", "absent", "absent", "object", "2024-01-02")}

TraceOutcomes == {[kind |-> "ok", failAt |-> 0], [kind |-> "commit", failAt |-> 0]}

StepsOf(op, idx, steps) == [k \in DOMAIN steps |-> [op |-> op, idx |-> idx, step |-> steps[k]]]

TraceInit ==
    /\ PipelineIdle
    /\ probe \in {[op |-> "trace", alphaKey |-> key, karenai |-> "none", steps |-> <<>>] :
                    key \in BOOLEAN}

TraceRatings ==
    /\ probe.op = "trace"
    /\ \E resp \in TraceKarenaiResponses :
         /\ RatingsCall({resp})
         /\ probe' = [probe EXCEPT
                        !.karenai = resp,
                        !.steps = @ \o StepsOf("karenai", 0, KarenaiSteps(resp))]

TraceFinnhub ==
    /\ probe.op = "trace"
    /\ FinnhubCall(TraceFinnhubResponses)
    /\ probe' = [probe EXCEPT
                   !.steps = @ \o StepsOf("finnhub", i, FinnhubRequests(finnhubResp'))]

TraceAlphaVantage ==
    /\ probe.op = "trace"
    /\ AlphaVantageCall({resp \in TraceAlphaVantageResponses : resp.key = probe.alphaKey})
    /\ probe' = [probe EXCEPT
                   !.steps = @ \o StepsOf("alphavantage", i, AlphaVantageSteps(alphaResp'))]

TracePersist == probe.op = "trace" /\ PersistWith(TraceOutcomes)

TraceNext == TraceRatings \/ TraceFinnhub \/ TraceAlphaVantage \/ Score \/ TracePersist

TraceSpec == TraceInit /\ [][TraceNext]_vars

Traced == probe.op = "trace"

StepsAt(op, step) ==
    {p \in DOMAIN probe.steps : probe.steps[p].op = op /\ probe.steps[p].step = step}

\* C24: every Client B request comes right after one delay of the same
\* invocation, and every delay right before its request; the delay comes
\* after that ticker's Client A call; a returned cycle over N tickers with
\* the Client B credential has N delays; without the credential there is
\* neither a delay nor a request.
C24_OneDelayPerRequest ==
    Traced =>
       /\ \A p \in StepsAt("alphavantage", "request") :
             /\ p > 1
             /\ probe.steps[p - 1] = [probe.steps[p] EXCEPT !.step = "sleep"]
             /\ p > 2 => probe.steps[p - 2].op # "alphavantage"
       /\ \A p \in StepsAt("alphavantage", "sleep") :
             /\ p < Len(probe.steps)
             /\ probe.steps[p + 1] = [probe.steps[p] EXCEPT !.step = "request"]
             /\ \A q \in 1..(p - 1) : probe.steps[q].op = "finnhub"
                    => probe.steps[q].idx <= probe.steps[p].idx
             /\ CallsFor("finnhub", probe.steps[p].idx) # {}
             /\ \A c \in CallsFor("alphavantage", probe.steps[p].idx) :
                   \A a \in CallsFor("finnhub", probe.steps[p].idx) : a < c
       /\ (Returned /\ karenaiErr = "nil" /\ probe.alphaKey)
             => /\ Cardinality(StepsAt("alphavantage", "sleep")) = Len(stocksFromKarenai)
                /\ Cardinality(StepsAt("alphavantage", "request")) = Len(stocksFromKarenai)
       /\ ~probe.alphaKey
             => /\ StepsAt("alphavantage", "sleep") = {}
                /\ StepsAt("alphavantage", "request") = {}

C24_Witness ==
    /\ Traced /\ Returned
    /\ probe.alphaKey
    /\ Len(stocksFromKarenai) = MaxTickers
    /\ Cardinality(StepsAt("alphavantage", "sleep")) = MaxTickers
    /\ errA[1] /\ errB[1]
    /\ Cardinality(CallsOf("alphavantage")) = MaxTickers

C24_WitnessNoKey ==
    /\ Traced /\ Returned
    /\ ~probe.alphaKey
    /\ Cardinality(CallsOf("alphavantage")) = MaxTickers
    /\ StepsAt("alphavantage", "sleep") = {}

(***************************************************************************)
(* GetFinnhubMetricsAndQuote as a function of the two payloads.            *)
(***************************************************************************)
MetricMembers == {NoMember, Member(0), Member(12), Member(15)}

MetricsInputs ==
    {[key |-> TRUE, metrics |-> MetricsPayload(pe, peAlt, dy, dyAlt, Member(500)), quote |-> q] :
        pe \in MetricMembers, peAlt \in MetricMembers,
        dy \in MetricMembers, dyAlt \in MetricMembers,
        q \in {QuoteFailure("status"), QuotePayload(Member(100), Member(1700000000))}}
    \cup {[key |-> TRUE, metrics |-> MetricsFailure("decode"),
           quote |-> QuotePayload(Member(100), Member(1700000000))]}

MetricsInit ==
    /\ PipelineIdle
    /\ probe \in {[op |-> "metrics", done |-> FALSE, resp |-> resp, data |-> ZeroFinnhubData] :
                    resp \in MetricsInputs}

ApplyGetFinnhubMetricsAndQuote ==
    /\ probe.op = "metrics"
    /\ ~probe.done
    /\ probe' = [probe EXCEPT !.done = TRUE, !.data = GetFinnhubMetricsAndQuote(probe.resp)]
    /\ UNCHANGED <<CycleVars, db, nextId, now, sched>>

MetricsNext == ApplyGetFinnhubMetricsAndQuote

MetricsSpec == MetricsInit /\ [][MetricsNext]_vars

MetricsDecoded == probe.op = "metrics" /\ probe.done /\ probe.resp.metrics.kind = "ok"

\* C25: for a decoded metrics payload the P/E ratio returned is
\* peExclExtraTTM when that is not 0 and peRatio otherwise, the dividend
\* yield returned is dividendYieldAnnually when that is not 0 and
\* dividendYield otherwise (a member that is missing counts as 0); 0 is not
\* returned while the alternate is not 0.
C25_PreferredThenAlternate ==
    MetricsDecoded =>
       LET m == probe.resp.metrics
           pe == DecodeFloat(m.peExclExtraTTM)
           dy == DecodeFloat(m.dividendYieldAnnually)
       IN /\ pe # 0 => probe.data.PE_Ratio = pe
          /\ pe = 0 => probe.data.PE_Ratio = DecodeFloat(m.peRatio)
          /\ dy # 0 => probe.data.DividendYield = dy
          /\ dy = 0 => probe.data.DividendYield = DecodeFloat(m.dividendYield)
          /\ DecodeFloat(m.peRatio) # 0 => probe.data.PE_Ratio # 0
          /\ DecodeFloat(m.dividendYield) # 0 => probe.data.DividendYield # 0

C25_Witness ==
    /\ MetricsDecoded
    /\ probe.resp.metrics.peExclExtraTTM = Member(0)
    /\ probe.resp.metrics.peRatio = Member(12)
    /\ probe.resp.metrics.dividendYieldAnnually = Member(15)
    /\ probe.resp.metrics.dividendYield = Member(12)
    /\ probe.data.PE_Ratio = 12
    /\ probe.data.DividendYield = 15

\* the quote timestamp Client A decoded for the ticker in hand
QuoteTimestamp == DecodeFloat(finnhubResp.quote.t)

\* C26: when both clients have answered for ticker i, its latestTradingDay
\* is present exactly when the Client A fetch returned no error and the quote
\* timestamp is not 0, and then is that timestamp; otherwise it is absent,
\* with no time in it, also when Client B returned a day.  Every processed
\* record and every stored row of the batch agrees: a present
\* latestTradingDay is never the zero time, never Client B's day, and never
\* belongs to a ticker whose Client A fetch failed.
C26_TradingDayFromClientAOnly ==
    /\ pc = "score" =>
         LET record == stocksFromKarenai[i]
             fetched == finnhubMetrics.Error = NoError /\ finnhubResp.key
                        /\ finnhubResp.quote.kind = "ok" /\ QuoteTimestamp # 0
         IN /\ fetched => record.LatestTradingDay = NullTime(QuoteTimestamp, TRUE)
            /\ ~fetched => record.LatestTradingDay = NullTime(ZeroTime, FALSE)
    /\ \A k \in DOMAIN errB :
          stocksFromKarenai[k].LatestTradingDay.Valid =>
             /\ ~errA[k]
             /\ stocksFromKarenai[k].LatestTradingDay.Time # ZeroTime
             /\ stocksFromKarenai[k].LatestTradingDay.Time \notin
                   {DateLayout[d] : d \in DOMAIN DateLayout}
    /\ pc = "saved" =>
          \A k \in DOMAIN batch : LastOfTicker(k) =>
             db[batch[k].Ticker].latest_trading_day = stocksFromKarenai[k].LatestTradingDay

C26_Witness ==
    /\ pc = "score"
    /\ ~errA[i] /\ ~errB[i]
    /\ finnhubResp.quote.kind = "ok"
    /\ QuoteTimestamp = 0
    /\ alphaVantageData.LatestTradingDay = DateLayout["2024-01-02"]
    /\ stocksFromKarenai[i].Alpha.Valid
    /\ stocksFromKarenai[i].LatestTradingDay = NullTime(ZeroTime, FALSE)

Scored(k) == CallsFor("score", k) # {}

\* C28: a scored record whose Client A fetch returned an error has the
\* action points only: 5 for "Buy" or "Strong Buy", 0 otherwise, whatever
\* its targetTo and whatever price the quote carried.
C28_NoTargetBonusAfterFinnhubFailure ==
    \A k \in DOMAIN errA : (errA[k] /\ Scored(k)) =>
        /\ stocksFromKarenai[k].CurrentPrice = 0
        /\ stocksFromKarenai[k].RecommendationScore =
              NullFloat64(IF stocksFromKarenai[k].Action \in {"Buy", "Strong Buy"}
                          THEN 5 ELSE 0, TRUE)

C28_Witness ==
    /\ pc = "saved"
    /\ Len(batch) = 2
    /\ errA = <<TRUE, TRUE>>
    /\ batch[1].Action = "Buy" /\ batch[1].TargetTo = NullFloat64(120, TRUE)
    /\ batch[1].RecommendationScore = NullFloat64(5, TRUE)
    /\ batch[2].Action = "Hold" /\ batch[2].TargetTo = NullFloat64(120, TRUE)
    /\ batch[2].RecommendationScore = NullFloat64(0, TRUE)

\* C29: a Client B result without error has Alpha 0, whatever the payload
\* held; every record whose Client B fetch succeeded has alpha present and
\* 0, in the slice and in the row stored for it.
C29_AlphaAlwaysZero ==
    /\ pc = "score" /\ alphaVantageData.Error = NoError => alphaVantageData.Alpha = 0
    /\ \A k \in DOMAIN errB :
          ~errB[k] => stocksFromKarenai[k].Alpha = NullFloat64(0, TRUE)
    /\ pc = "saved" =>
          \A k \in DOMAIN batch : (~errB[k] /\ LastOfTicker(k)) =>
             db[batch[k].Ticker].alpha = NullFloat64(0, TRUE)

C29_Witness ==
    /\ pc = "saved"
    /\ Len(batch) = 2
    /\ errB = <<FALSE, TRUE>>
    /\ batch[1].Ticker # batch[2].Ticker
    /\ db[batch[1].Ticker].alpha = NullFloat64(0, TRUE)
    /\ db[batch[2].Ticker].alpha = NullFloat64(0, FALSE)

\* a target string of the payload that is neither a number nor one of the
\* spellings of absent
MalformedTarget(text) ==
    /\ text \notin {"null", "\"\"", "\"N/A\""}
    /\ text \notin DOMAIN JSONNumber

MalformedItem(item) == MalformedTarget(item.target_from) \/ MalformedTarget(item.target_to)

KarenaiStepsTaken ==
    [k \in 1..Cardinality({p \in DOMAIN probe.steps : probe.steps[p].op = "karenai"}) |->
        probe.steps[k].step]

CycleAborted ==
    /\ pc = "returned"
    /\ stocksFromKarenai = <<>>
    /\ calls = <<Call("karenai", 0, "")>>
    /\ batch = <<>>
    /\ db = db0

\* C27: when the Rating Source answers with status 200 and one item of the
\* payload carries a malformed target, the fetch fails with the decode error
\* and the cycle is aborted: no ticker of the response is enriched or
\* persisted.  Without the credential the fetch fails and no request is
\* sent; with a status other than 200 it fails after reading the body,
\* without decoding it.
C27_MalformedItemAbortsCycle ==
    (Traced /\ karenaiErr # "pending") =>
       LET resp == probe.karenai
       IN /\ (resp.key /\ resp.transport = "ok" /\ resp.status = StatusOK
                /\ \E k \in DOMAIN resp.items : MalformedItem(resp.items[k]))
             => (karenaiErr = "decode" /\ CycleAborted
                 /\ KarenaiStepsTaken = <<"request", "read", "decode">>)
          /\ ~resp.key
             => (karenaiErr = "no api key" /\ CycleAborted /\ KarenaiStepsTaken = <<>>)
          /\ (resp.key /\ resp.transport = "ok" /\ resp.status # StatusOK)
             => (karenaiErr = "status" /\ CycleAborted
                 /\ KarenaiStepsTaken = <<"request", "read">>)

C27_Witness ==
    /\ Traced
    /\ karenaiErr = "decode"
    /\ Len(probe.karenai.items) = 2
    /\ probe.karenai.items[1] = RawItem("AAA", "Buy", "120")
    /\ probe.karenai.items[2] = RawItem("CCC", "Strong Buy", "\"abc\"")
    /\ CycleAborted

====
